---------------------------- MODULE Spec2Model ----------------------------
(***************************************************************************)
(* Drag-and-drop engine of the EclipseTab dock: the pure list helpers, the *)
(* top-level coordinator (App.tsx) and the drag sessions of the dock and   *)
(* folder hooks.  Indices are 0-based as in the source; sequences are the  *)
(* 1-based TLA+ sequences, so the element at source index i is s[i + 1].   *)
(***************************************************************************)
EXTENDS Integers, Sequences, FiniteSets, TLC

VARIABLES
    \* ---- pure-function harness ----
    pureIn,        \* the call drawn in Init: [fn, ...arguments]
    pureMem,       \* the caller's argument array as it is after the call
    pureOut,       \* <<>> before the call, <<return value>> after it
    \* ---- coordinator (App.tsx) ----
    dockItems,     \* App.tsx:15  useState<DockItem[]>
    openFolderId,  \* App.tsx:18  useState<string | null>
    lastOp,        \* the coordinator operation that produced this state
    \* ---- drag sessions (hooks/useDragAndDrop.ts) ----
    isEditMode,    \* App.tsx:17  useState(false)
    draggingItem,  \* App.tsx:19  useState<DockItem | null>, the externalDragItem prop
    dockHook,      \* state, refs and window listeners of the dock hook
    folderHook,    \* state, refs and window listeners of the folder hook
    folderHasActivePlaceholder,  \* utils/dragDetection: the module-level flag
    anims,         \* closures created by onReturnAnimationComplete, still live
    calls,         \* callbacks the hooks invoked since the last armed press
    now,           \* Date.now(), in milliseconds
    mouse          \* the pointer as the user holds it, and its last press

pureVars == <<pureIn, pureMem, pureOut>>
appVars  == <<dockItems, openFolderId, lastOp>>
sessVars == <<isEditMode, draggingItem, dockHook, folderHook, folderHasActivePlaceholder,
              anims, calls, now, mouse>>
vars     == <<pureIn, pureMem, pureOut, dockItems, openFolderId, lastOp,
              isEditMode, draggingItem, dockHook, folderHook, folderHasActivePlaceholder,
              anims, calls, now, mouse>>

NULL == "null"

--------------------------------------------------------------------------
(* Bounds *)

MaxListLen   == 4      \* longest list handed to reorderList
MaxPureDock  == 3      \* longest dock list handed to the dissolution step
MaxApps      == 4      \* number of app ids known to the coordinator

--------------------------------------------------------------------------
(* DockItem (types: DockItem).  An app carries an empty items array. *)

AppItem(id)           == [id |-> id, type |-> "app", items |-> <<>>]
FolderItem(id, its)   == [id |-> id, type |-> "folder", items |-> its]

Min(a, b) == IF a < b THEN a ELSE b
Max(a, b) == IF a > b THEN a ELSE b

\* Array.prototype.filter(i => i.id !== id)
FilterOutId(s, id) == SelectSeq(s, LAMBDA e : e.id # id)

\* Array.prototype.findIndex(i => i.id === id); -1 when absent
FindIndexById(s, id) ==
    IF \E k \in 1..Len(s) : s[k].id = id
    THEN (CHOOSE k \in 1..Len(s) : s[k].id = id /\ \A j \in 1..(k - 1) : s[j].id # id) - 1
    ELSE -1

\* Array.prototype.splice(i, 1) for 0 <= i: the array that remains
SpliceRemove(s, i) ==
    IF i < Len(s)
    THEN [k \in 1..(Len(s) - 1) |-> IF k <= i THEN s[k] ELSE s[k + 1]]
    ELSE s

\* Array.prototype.splice(i, 0, x) for 0 <= i: an index past the end appends
SpliceInsert(s, i, x) ==
    LET at == Min(i, Len(s))
    IN  [k \in 1..(Len(s) + 1) |->
            IF k <= at THEN s[k] ELSE IF k = at + 1 THEN x ELSE s[k - 1]]

\* Number of occurrences of x in s
Count(s, x) == Cardinality({k \in 1..Len(s) : s[k] = x})

SameMultiset(s, t) ==
    /\ Len(s) = Len(t)
    /\ \A k \in 1..Len(s) : Count(s, s[k]) = Count(t, s[k])

--------------------------------------------------------------------------
(* utils/dragUtils.ts: reorderList.  The call returns the new array and    *)
(* leaves the argument array as Array.from copied it.                      *)

reorderList_insertAdjusted(list, startIndex, endIndex) ==
    [arg    |-> list,
     result |-> SpliceInsert(SpliceRemove(list, startIndex),
                             IF endIndex > startIndex THEN endIndex - 1 ELSE endIndex,
                             list[startIndex + 1])]

reorderList(list, startIndex, endIndex) ==
    LET result0 == list                              \* Array.from(list)
        removed == result0[startIndex + 1]           \* const [removed] = result.splice(startIndex, 1)
        result1 == SpliceRemove(result0, startIndex)
        result2 == SpliceInsert(result1, endIndex, removed)
    IN  [arg |-> list, result |-> result2]

--------------------------------------------------------------------------
(* App.tsx: checkAndDissolveFolderIfNeeded *)

checkAndDissolve_appendRemaining(folderId, updatedItems) ==
    LET folderIndex == FindIndexById(updatedItems, folderId)
    IN  IF folderIndex = -1 THEN updatedItems
        ELSE LET folder == updatedItems[folderIndex + 1]
             IN  IF folder.type # "folder" THEN updatedItems
                 ELSE IF Len(folder.items) = 0 THEN FilterOutId(updatedItems, folderId)
                 ELSE IF Len(folder.items) = 1
                      THEN Append(FilterOutId(updatedItems, folderId), folder.items[1])
                 ELSE updatedItems

checkAndDissolveFolderIfNeeded(folderId, updatedItems) ==
    LET folderIndex == FindIndexById(updatedItems, folderId)
    IN  IF folderIndex = -1 THEN updatedItems
        ELSE LET folder == updatedItems[folderIndex + 1]
             IN  IF folder.type # "folder" THEN updatedItems
                 ELSE IF Len(folder.items) = 0 THEN FilterOutId(updatedItems, folderId)
                 ELSE IF Len(folder.items) = 1
                      THEN [updatedItems EXCEPT ![folderIndex + 1] = folder.items[1]]
                 ELSE updatedItems

--------------------------------------------------------------------------
(* Shapes of the drag-session state.  A null item is the record NoItem, a  *)
(* null index or position is the empty sequence and a value v is <<v>>.    *)

NoItem  == [id |-> NULL, type |-> "none", items |-> <<>>]
NoIndex == <<>>
NoPos   == <<>>
NoData  == [type |-> "none"]

Pos(x, y) == [x |-> x, y |-> y]

\* utils/dragUtils.ts createInitialDragState, with the additions of the dock
\* (targetAction, targetActionData) that createDockDragState passes in
IdleDragState ==
    [isDragging        |-> FALSE,
     item              |-> NoItem,
     originalIndex     |-> -1,
     currentPosition   |-> Pos(0, 0),
     startPosition     |-> Pos(0, 0),
     offset            |-> Pos(0, 0),
     isAnimatingReturn |-> FALSE,
     targetPosition    |-> NoPos,
     targetAction      |-> "none",
     targetActionData  |-> NoData]

\* the closure createMouseDownHandler leaves behind: its two window
\* listeners, dragDataSet and the press it captured
NoPress ==
    [upListening |-> FALSE, dragDataSet |-> FALSE, item |-> NoItem,
     index |-> -1, start |-> Pos(0, 0), offset |-> Pos(0, 0)]

\* a hook as it is after its first render
HookAtRest ==
    [dragState            |-> IdleDragState,
     dragRef              |-> IdleDragState,
     placeholderIndex     |-> NoIndex,
     placeholderRef       |-> NoIndex,
     hoveredFolderId      |-> NULL,
     hoveredFolderRef     |-> NULL,
     hoveredAppId         |-> NULL,
     hoveredAppRef        |-> NULL,
     mergeTargetId        |-> NULL,
     mergeTargetRef       |-> NULL,
     isPreMerge           |-> FALSE,
     isPreMergeRef        |-> FALSE,
     hoverStartTime       |-> 0,
     potentialMergeTarget |-> NULL,
     layoutSnapshotRef    |-> <<>>,
     hasMovedRef          |-> FALSE,
     thresholdListenerRef |-> FALSE,
     moveListening        |-> FALSE,
     externalListening    |-> FALSE,
     press                |-> NoPress]

\* the button, the press point, whether the pointer has moved since and
\* whether it has been farther than MOVE_THRESHOLD from the press point,
\* whether edit mode was on at the press, once released, whether the
\* release ran a hook's handleMouseUp, whether the last move found the dock
\* hook on the folder it had been tracking for more than HOVER_OPEN_DELAY,
\* where the last move of a folder press was, whether the folder hook's
\* handleMouseMove saw it, and whether the last move took the dock hook's
\* handleMouseMove over the folder view or out of the dock's buffered bounds
MouseAtRest == [down |-> FALSE, start |-> Pos(0, 0), moved |-> FALSE,
                exceeded |-> FALSE, editAtDown |-> FALSE, released |-> FALSE,
                upRan |-> FALSE, late |-> FALSE, pos |-> Pos(0, 0),
                tracked |-> FALSE, away |-> FALSE]

SessionAtRest ==
    /\ isEditMode = FALSE
    /\ draggingItem = NoItem
    /\ dockHook = HookAtRest
    /\ folderHook = HookAtRest
    /\ folderHasActivePlaceholder = FALSE
    /\ anims = <<>>
    /\ calls = <<>>
    /\ now = 0
    /\ mouse = MouseAtRest

Phase(ds) ==
    IF ds.isAnimatingReturn THEN "animatingReturn"
    ELSE IF ds.isDragging THEN "dragging"
    ELSE IF ds.item.id # NULL THEN "pressed"
    ELSE "idle"

--------------------------------------------------------------------------
(* Layout of the rendered page (constants/layout.ts).  The dock is one row *)
(* of cells whose first item has its top-left corner at DockOrigin; the    *)
(* folder view is a grid of FOLDER_COLUMNS columns at FolderOrigin, close  *)
(* enough above the dock that its lower edge lies inside the dock's drag   *)
(* buffer.  Containers pad their items by one gap on every side.           *)

DOCK_ITEM_WIDTH          == 64
DOCK_ITEM_GAP            == 8
DOCK_CELL_SIZE           == 72
DOCK_DRAG_BUFFER         == 50
FOLDER_COLUMNS           == 4
FOLDER_DRAG_BUFFER       == 50
DRAG_THRESHOLD           == 8
MOVE_THRESHOLD           == 8
MERGE_DISTANCE_THRESHOLD == 30
HOVER_OPEN_DELAY         == 500
PRE_MERGE_DELAY          == 300
HALF_ITEM                == 32

DockOrigin   == [x |-> 100, y |-> 600]
FolderOrigin == [x |-> 100, y |-> 480]

ItemRect(left, top) ==
    [left |-> left, top |-> top,
     right |-> left + DOCK_ITEM_WIDTH, bottom |-> top + DOCK_ITEM_WIDTH]

DockItemLeft(i)    == DockOrigin.x + i * DOCK_CELL_SIZE
DockItemCenterX(i) == DockItemLeft(i) + HALF_ITEM
DockRowY           == DockOrigin.y + HALF_ITEM

FolderItemLeft(j) == FolderOrigin.x + (j % FOLDER_COLUMNS) * DOCK_CELL_SIZE
FolderItemTop(j)  == FolderOrigin.y + (j \div FOLDER_COLUMNS) * DOCK_CELL_SIZE
FolderRowY        == FolderOrigin.y + HALF_ITEM

\* getBoundingClientRect() of the dock container holding n items
DockRect(n) ==
    [left   |-> DockOrigin.x - DOCK_ITEM_GAP,
     top    |-> DockOrigin.y - DOCK_ITEM_GAP,
     right  |-> DockItemLeft(n),
     bottom |-> DockOrigin.y + DOCK_CELL_SIZE]

\* getBoundingClientRect() of the folder view holding n items
FolderRect(n) ==
    LET rows == Max(1, (n + FOLDER_COLUMNS - 1) \div FOLDER_COLUMNS)
    IN  [left   |-> FolderOrigin.x - DOCK_ITEM_GAP,
         top    |-> FolderOrigin.y - DOCK_ITEM_GAP,
         right  |-> FolderOrigin.x + FOLDER_COLUMNS * DOCK_CELL_SIZE,
         bottom |-> FolderOrigin.y + rows * DOCK_CELL_SIZE]

InRect(p, r, buffer) ==
    /\ p.x >= r.left - buffer
    /\ p.x <= r.right + buffer
    /\ p.y >= r.top - buffer
    /\ p.y <= r.bottom + buffer

\* Math.hypot(a.x - b.x, a.y - b.y) compared with a threshold, on squares
DistSq(a, b) == (a.x - b.x) * (a.x - b.x) + (a.y - b.y) * (a.y - b.y)
FartherThan(a, b, d) == DistSq(a, b) > d * d
CloserThan(a, b, d)  == DistSq(a, b) < d * d

\* captureLayoutSnapshot(): one LayoutItem per rendered item, in list order
LayoutItem(id, index, left, top) ==
    [id |-> id, index |-> index, rect |-> ItemRect(left, top),
     centerX |-> left + HALF_ITEM, centerY |-> top + HALF_ITEM]

DockSnapshot(items) ==
    [k \in 1..Len(items) |->
        LayoutItem(items[k].id, k - 1, DockItemLeft(k - 1), DockOrigin.y)]

FolderSnapshot(items) ==
    [k \in 1..Len(items) |->
        LayoutItem(items[k].id, k - 1, FolderItemLeft(k - 1), FolderItemTop(k - 1))]

\* the x coordinates a pointer takes over a row of n items: before the first
\* centre, on every centre, between centres and after the last one
DockPointerXs(n) ==
    {DockItemCenterX(i) : i \in 0..(n - 1)}
        \cup {DockItemCenterX(i) - HALF_ITEM - 4 : i \in 0..n}

--------------------------------------------------------------------------
(* hooks/useDragAndDrop.ts, handleMouseUp: the list a dock release that    *)
(* resolves to reorder computes from the items, the source index and the   *)
(* placeholder index (oldIndex = -1 is an external drag: nothing moves).   *)

DockInsertIndex(oldIndex, currentPlaceholder) ==
    IF oldIndex # -1 /\ currentPlaceholder > oldIndex
    THEN currentPlaceholder - 1
    ELSE currentPlaceholder

DockReorderItems_noAdjust(currentItems, oldIndex, currentPlaceholder) ==
    IF oldIndex # -1
    THEN SpliceInsert(SpliceRemove(currentItems, oldIndex), currentPlaceholder,
                      currentItems[oldIndex + 1])
    ELSE currentItems

DockReorderItems(currentItems, oldIndex, currentPlaceholder) ==
    LET insertIndex == DockInsertIndex(oldIndex, currentPlaceholder)
    IN  IF oldIndex # -1
        THEN SpliceInsert(SpliceRemove(currentItems, oldIndex), insertIndex,
                          currentItems[oldIndex + 1])
        ELSE currentItems

--------------------------------------------------------------------------
(* App.tsx: the coordinator's handlers.  Each takes the coordinator state  *)
(* st = [dockItems, openFolderId] and returns the state after the handler. *)
(* generateFolderIcon only repaints the icon and is left out.              *)

FindById(s, id) == s[FindIndexById(s, id) + 1]
HasId(s, id)    == FindIndexById(s, id) # -1

handleItemDelete(st, item) ==
    [dockItems    |-> FilterOutId(st.dockItems, item.id),
     openFolderId |-> IF st.openFolderId = item.id THEN NULL ELSE st.openFolderId]

handleItemsReorder(st, items) ==
    [st EXCEPT !.dockItems = items]

handleFolderItemsReorder(st, folderId, items) ==
    [st EXCEPT !.dockItems =
        [k \in 1..Len(st.dockItems) |->
            IF st.dockItems[k].id = folderId /\ st.dockItems[k].type = "folder"
            THEN [st.dockItems[k] EXCEPT !.items = items]
            ELSE st.dockItems[k]]]

handleFolderItemDelete_noDissolve(st, folderId, item) ==
    IF HasId(st.dockItems, folderId) /\ FindById(st.dockItems, folderId).type = "folder"
    THEN [st EXCEPT !.dockItems =
            [k \in 1..Len(st.dockItems) |->
                IF st.dockItems[k].id = folderId
                THEN [st.dockItems[k] EXCEPT !.items = FilterOutId(@, item.id)]
                ELSE st.dockItems[k]]]
    ELSE st

handleFolderItemDelete(st, folderId, item) ==
    IF HasId(st.dockItems, folderId) /\ FindById(st.dockItems, folderId).type = "folder"
    THEN LET folder   == FindById(st.dockItems, folderId)
             newItems == FilterOutId(folder.items, item.id)
             mapped   == [k \in 1..Len(st.dockItems) |->
                            IF st.dockItems[k].id = folderId
                            THEN [st.dockItems[k] EXCEPT !.items = newItems]
                            ELSE st.dockItems[k]]
             newDockItems == checkAndDissolveFolderIfNeeded(folderId, mapped)
             dissolved == ~HasId(newDockItems, folderId)
                          \/ FindById(newDockItems, folderId).type # "folder"
         IN  [dockItems    |-> newDockItems,
              openFolderId |-> IF dissolved THEN NULL ELSE st.openFolderId]
    ELSE st

\* the same handler without the removal of the item from the folder
handleDragFromFolder_keepsInFolder(st, item, mouseX, dockElementPresent) ==
    IF st.openFolderId = NULL THEN st
    ELSE IF ~HasId(st.dockItems, st.openFolderId)
            \/ FindById(st.dockItems, st.openFolderId).type # "folder" THEN st
    ELSE
    LET folder         == FindById(st.dockItems, st.openFolderId)
        newFolderItems == folder.items
        newDockItems   == [k \in 1..Len(st.dockItems) |->
                              IF st.dockItems[k].id = st.openFolderId
                              THEN [st.dockItems[k] EXCEPT !.items = newFolderItems]
                              ELSE st.dockItems[k]]
        updatedDockItems == checkAndDissolveFolderIfNeeded(st.openFolderId, newDockItems)
        closed == ~HasId(updatedDockItems, st.openFolderId)
                  \/ FindById(updatedDockItems, st.openFolderId).type # "folder"
        newOpen == IF closed THEN NULL ELSE st.openFolderId
        rendered == Len(st.dockItems)
        hits == {i \in 0..(rendered - 1) : mouseX < DockItemCenterX(i)}
        found == IF hits = {} THEN Len(updatedDockItems)
                 ELSE CHOOSE i \in hits : \A j \in hits : i <= j
        finalItems0 == FilterOutId(updatedDockItems, item.id)
        insertIndex == Max(0, Min(found, Len(finalItems0)))
    IN  IF ~dockElementPresent
        THEN [dockItems |-> Append(finalItems0, item), openFolderId |-> newOpen]
        ELSE [dockItems |-> SpliceInsert(finalItems0, insertIndex, item),
              openFolderId |-> newOpen]

\* mouseX is mousePosition.x; dockElementPresent is whether
\* document.querySelector('[data-dock-container="true"]') finds the dock, whose
\* item wrappers are the rendered st.dockItems.
handleDragFromFolder(st, item, mouseX, dockElementPresent) ==
    IF st.openFolderId = NULL THEN st
    ELSE IF ~HasId(st.dockItems, st.openFolderId)
            \/ FindById(st.dockItems, st.openFolderId).type # "folder" THEN st
    ELSE
    LET folder         == FindById(st.dockItems, st.openFolderId)
        newFolderItems == FilterOutId(folder.items, item.id)
        newDockItems   == [k \in 1..Len(st.dockItems) |->
                              IF st.dockItems[k].id = st.openFolderId
                              THEN [st.dockItems[k] EXCEPT !.items = newFolderItems]
                              ELSE st.dockItems[k]]
        updatedDockItems == checkAndDissolveFolderIfNeeded(st.openFolderId, newDockItems)
        closed == ~HasId(updatedDockItems, st.openFolderId)
                  \/ FindById(updatedDockItems, st.openFolderId).type # "folder"
        newOpen == IF closed THEN NULL ELSE st.openFolderId
        rendered == Len(st.dockItems)
        hits == {i \in 0..(rendered - 1) : mouseX < DockItemCenterX(i)}
        found == IF hits = {} THEN Len(updatedDockItems)
                 ELSE CHOOSE i \in hits : \A j \in hits : i <= j
        finalItems0 == FilterOutId(updatedDockItems, item.id)
        insertIndex == Max(0, Min(found, Len(finalItems0)))
    IN  IF ~dockElementPresent
        THEN [dockItems |-> Append(finalItems0, item), openFolderId |-> newOpen]
        ELSE [dockItems |-> SpliceInsert(finalItems0, insertIndex, item),
              openFolderId |-> newOpen]

handleDragToFolder(st, item) ==
    IF st.openFolderId = NULL \/ item.type = "folder" THEN st
    ELSE IF ~HasId(st.dockItems, st.openFolderId)
            \/ FindById(st.dockItems, st.openFolderId).type # "folder" THEN st
    ELSE
    LET folder         == FindById(st.dockItems, st.openFolderId)
        newFolderItems == Append(folder.items, item)
        mapped == [k \in 1..Len(st.dockItems) |->
                      IF st.dockItems[k].id = st.openFolderId
                      THEN [st.dockItems[k] EXCEPT !.items = newFolderItems]
                      ELSE st.dockItems[k]]
    IN  [st EXCEPT !.dockItems = FilterOutId(mapped, item.id)]

handleDropOnFolder_noFlatten(st, dragItem, targetFolder) ==
    IF targetFolder.type # "folder" THEN st
    ELSE
    LET itemsToAdd == <<dragItem>>
        mapped == [k \in 1..Len(st.dockItems) |->
                      IF st.dockItems[k].id = targetFolder.id
                      THEN [st.dockItems[k] EXCEPT !.items = @ \o itemsToAdd]
                      ELSE st.dockItems[k]]
    IN  [st EXCEPT !.dockItems = FilterOutId(mapped, dragItem.id)]

handleDropOnFolder(st, dragItem, targetFolder) ==
    IF targetFolder.type # "folder" THEN st
    ELSE
    LET itemsToAdd == IF dragItem.type = "folder" THEN dragItem.items ELSE <<dragItem>>
        mapped == [k \in 1..Len(st.dockItems) |->
                      IF st.dockItems[k].id = targetFolder.id
                      THEN [st.dockItems[k] EXCEPT !.items = @ \o itemsToAdd]
                      ELSE st.dockItems[k]]
    IN  [st EXCEPT !.dockItems = FilterOutId(mapped, dragItem.id)]

handleHoverOpenFolder(st, folder) ==
    IF folder.type = "folder" THEN [st EXCEPT !.openFolderId = folder.id] ELSE st

handleItemClick(st, item) ==
    IF item.type = "folder" THEN [st EXCEPT !.openFolderId = item.id] ELSE st

--------------------------------------------------------------------------
(* The coordinator as a state machine: every operation the dock and the    *)
(* folder view can ask of App.tsx, with the arguments those views pass.    *)

AllAppIds == <<"a", "b", "c", "d", "e", "f">>
AppIds    == {AllAppIds[k] : k \in 1..MaxApps}
FolderIds == {"F", "G"}

\* the apps that satisfy P, in id order
AppsWhere(P(_)) ==
    LET ids == SelectSeq(SubSeq(AllAppIds, 1, MaxApps), P)
    IN  [k \in 1..Len(ids) |-> AppItem(ids[k])]

\* the dock that places every app where loc says: folders first, then the
\* apps left on the dock
DockOf(loc) ==
    LET fs == SelectSeq(<<"F", "G">>, LAMBDA f : \E a \in AppIds : loc[a] = f)
    IN  [k \in 1..Len(fs) |-> FolderItem(fs[k], AppsWhere(LAMBDA a : loc[a] = fs[k]))]
        \o AppsWhere(LAMBDA a : loc[a] = "dock")

FoldersOk(items) ==
    \A k \in 1..Len(items) : items[k].type = "folder" => Len(items[k].items) >= 2

InitialDocks ==
    {d \in {DockOf(loc) : loc \in [AppIds -> {"dock", "F", "G"}]} : FoldersOk(d)}

AppState == [dockItems |-> dockItems, openFolderId |-> openFolderId]

SetApp(st, op) ==
    /\ dockItems' = st.dockItems
    /\ openFolderId' = st.openFolderId
    /\ lastOp' = op
    /\ UNCHANGED <<pureVars, sessVars>>

\* App.tsx:304,410 -- the folder view exists only for an open entry of type folder
FolderViewOpen ==
    /\ openFolderId # NULL
    /\ HasId(dockItems, openFolderId)
    /\ FindById(dockItems, openFolderId).type = "folder"

OpenFolder == FindById(dockItems, openFolderId)

InitApp ==
    /\ dockItems \in InitialDocks
    /\ openFolderId = NULL
    /\ lastOp = "none"
    /\ pureIn = [fn |-> "none"]
    /\ pureMem = <<>>
    /\ pureOut = <<>>
    /\ SessionAtRest

AppItemClick ==
    \E i \in 1..Len(dockItems) :
        /\ dockItems[i].type = "folder"
        /\ SetApp(handleItemClick(AppState, dockItems[i]), "open")

AppCloseFolder ==
    /\ FolderViewOpen
    /\ SetApp([AppState EXCEPT !.openFolderId = NULL], "close")

AppItemDelete ==
    \E i \in 1..Len(dockItems) :
        SetApp(handleItemDelete(AppState, dockItems[i]), "itemDelete")

AppItemsReorder ==
    \E s \in 0..(Len(dockItems) - 1), p \in 0..Len(dockItems) :
        SetApp(handleItemsReorder(AppState, DockReorderItems(dockItems, s, p)), "itemsReorder")

AppFolderItemsReorder ==
    /\ FolderViewOpen
    /\ \E s \in 0..(Len(OpenFolder.items) - 1), p \in 0..Len(OpenFolder.items) :
        /\ p # s
        /\ SetApp(handleFolderItemsReorder(AppState, OpenFolder.id,
                      reorderList(OpenFolder.items, s, p).result), "folderItemsReorder")

AppFolderItemDelete ==
    /\ FolderViewOpen
    /\ \E j \in 1..Len(OpenFolder.items) :
        SetApp(handleFolderItemDelete(AppState, OpenFolder.id, OpenFolder.items[j]),
               "folderItemDelete")

AppDragFromFolder ==
    /\ FolderViewOpen
    /\ \E j \in 1..Len(OpenFolder.items), x \in DockPointerXs(Len(dockItems)),
          present \in BOOLEAN :
        SetApp(handleDragFromFolder(AppState, OpenFolder.items[j], x, present),
               IF present THEN "dragFromFolder" ELSE "dragFromFolderNoDock")

AppDragToFolder ==
    \E i \in 1..Len(dockItems) :
        SetApp(handleDragToFolder(AppState, dockItems[i]), "dragToFolder")

AppDropOnFolder ==
    \E i, t \in 1..Len(dockItems) :
        /\ i # t
        /\ SetApp(handleDropOnFolder(AppState, dockItems[i], dockItems[t]), "dropOnFolder")

AppHoverOpenFolder ==
    \E i, t \in 1..Len(dockItems) :
        /\ i # t
        /\ dockItems[t].type = "folder"
        /\ SetApp(handleHoverOpenFolder(AppState, dockItems[t]), "hoverOpen")

NextApp ==
    \/ AppItemClick
    \/ AppCloseFolder
    \/ AppItemDelete
    \/ AppItemsReorder
    \/ AppFolderItemsReorder
    \/ AppFolderItemDelete
    \/ AppDragFromFolder
    \/ AppDragToFolder
    \/ AppDropOnFolder
    \/ AppHoverOpenFolder

SpecApp == InitApp /\ [][NextApp]_vars

--------------------------------------------------------------------------
(* Harness for the pure functions: Init draws a call, the action applies   *)
(* the function as the code computes it.                                   *)

SeqsUpTo(S, n) == UNION {[1..k -> S] : k \in 0..n}

DistinctIds(s) == \A j, k \in 1..Len(s) : j # k => s[j].id # s[k].id

PureElems == {"a", "b", "c"}

ReorderCalls ==
    {[fn |-> "reorderList", list |-> l, startIndex |-> s, endIndex |-> d] :
        <<l, s, d>> \in {<<l, s, d>> \in SeqsUpTo(PureElems, MaxListLen)
                                          \X (0..MaxListLen) \X (0..MaxListLen) :
                            s < Len(l) /\ d <= Len(l)}}

PureEntries ==
    {AppItem("a"), AppItem("b"),
     FolderItem("F", <<>>), FolderItem("F", <<AppItem("c")>>),
     FolderItem("F", <<AppItem("c"), AppItem("d")>>),
     FolderItem("G", <<AppItem("e"), AppItem("f")>>)}

DissolveCalls ==
    {[fn |-> "dissolve", folderId |-> f, items |-> l] :
        <<f, l>> \in {"F", "G", "a", "Z"}
                     \X {l \in SeqsUpTo(PureEntries, MaxPureDock) : DistinctIds(l)}}

\* the same function keeping the last of the nearest items, not the first
calculateFolderDropIndex_lastClosest(e, layoutSnapshot, itemCount, containerPresent) ==
    LET n       == Len(layoutSnapshot)
        Dist(k) == DistSq(e, Pos(layoutSnapshot[k].centerX, layoutSnapshot[k].centerY))
        closest == CHOOSE k \in 1..n :
                      /\ \A j \in 1..n : Dist(k) <= Dist(j)
                      /\ \A j \in (k + 1)..n : Dist(j) > Dist(k)
        hysteresis == 10
    IN  IF n = 0 THEN 0
        ELSE IF containerPresent /\ e.y > layoutSnapshot[n].rect.bottom THEN itemCount
        ELSE IF e.x < layoutSnapshot[closest].centerX + hysteresis
             THEN layoutSnapshot[closest].index
             ELSE layoutSnapshot[closest].index + 1

\* utils/dragUtils.ts calculateFolderDropIndex
calculateFolderDropIndex(e, layoutSnapshot, itemCount, containerPresent) ==
    LET n       == Len(layoutSnapshot)
        Dist(k) == DistSq(e, Pos(layoutSnapshot[k].centerX, layoutSnapshot[k].centerY))
        closest == CHOOSE k \in 1..n :
                      /\ \A j \in 1..n : Dist(k) <= Dist(j)
                      /\ \A j \in 1..(k - 1) : Dist(j) > Dist(k)
        hysteresis == 10
    IN  IF n = 0 THEN 0
        ELSE IF containerPresent /\ e.y > layoutSnapshot[n].rect.bottom THEN itemCount
        ELSE IF e.x < layoutSnapshot[closest].centerX + hysteresis
             THEN layoutSnapshot[closest].index
             ELSE layoutSnapshot[closest].index + 1

MaxGrid == 5      \* most items of a folder handed to the grid index function

GridIds == <<"a", "b", "c", "d", "e", "f", "g">>

\* the snapshot captured from a folder view of n items
GridSnapshot(n) == FolderSnapshot([k \in 1..n |-> AppItem(GridIds[k])])

\* pointer positions over the grid: on a column centre, 9, 10 and 11 pixels
\* right of it and half a cell right of it; on a row centre, half a cell
\* below it, on the bottom edge of the row and one pixel below that
GridPoints ==
    {Pos(FolderItemLeft(c) + HALF_ITEM + dx, FolderItemTop(r * FOLDER_COLUMNS) + dy) :
        c \in 0..(FOLDER_COLUMNS - 1), r \in 0..1,
        dx \in {0, 9, 10, 11, DOCK_CELL_SIZE \div 2},
        dy \in {HALF_ITEM, HALF_ITEM + DOCK_CELL_SIZE \div 2,
                 DOCK_ITEM_WIDTH, DOCK_ITEM_WIDTH + 1}}

\* a call of calculateFolderDropIndex: a folder of n items, the length of
\* the list at the time of the call, whether a container rect is passed
GridCalls ==
    {[fn |-> "calculateFolderDropIndex", n |-> n, itemCount |-> c,
      containerRect |-> r, mouse |-> e] :
        <<n, c, r, e>> \in
            {<<n, c, r, e>> \in (0..MaxGrid) \X (0..(MaxGrid + 1)) \X BOOLEAN
                                   \X GridPoints :
                c >= n - 1 /\ c <= n + 1}}

MaxSlot == 5      \* largest item index handed to the displacement functions

\* what createHorizontalStrategy() and createGridStrategy() close over
HorizontalStrategy == [cellSize |-> 72]
GridStrategy       == [columns |-> 4, cellSize |-> 64 + 8]

\* utils/dragStrategies.ts createHorizontalStrategy().calculateTransform with
\* a cell size that grows with every call
horizontalCalculateTransform_counting(self, index, targetSlot, originalIndex, isDragging) ==
    LET t == targetSlot[1]
        x == IF targetSlot = NoIndex THEN 0
             ELSE IF isDragging /\ originalIndex # -1
             THEN IF index = originalIndex THEN 0
                  ELSE IF t = originalIndex \/ t = originalIndex + 1 THEN 0
                  ELSE IF originalIndex < t /\ index > originalIndex /\ index < t
                  THEN -self.cellSize
                  ELSE IF originalIndex > t /\ index >= t /\ index < originalIndex
                  THEN self.cellSize
                  ELSE 0
             ELSE IF originalIndex = -1 /\ index >= t THEN self.cellSize
             ELSE 0
    IN  [self |-> [self EXCEPT !.cellSize = @ + 1], out |-> Pos(x, 0)]

\* utils/dragStrategies.ts createHorizontalStrategy().calculateTransform; the
\* result is the returned offset and the closure as the call leaves it
horizontalCalculateTransform(self, index, targetSlot, originalIndex, isDragging) ==
    LET t == targetSlot[1]
        x == IF targetSlot = NoIndex THEN 0
             ELSE IF isDragging /\ originalIndex # -1
             THEN IF index = originalIndex THEN 0
                  ELSE IF t = originalIndex \/ t = originalIndex + 1 THEN 0
                  ELSE IF originalIndex < t /\ index > originalIndex /\ index < t
                  THEN -self.cellSize
                  ELSE IF originalIndex > t /\ index >= t /\ index < originalIndex
                  THEN self.cellSize
                  ELSE 0
             ELSE IF originalIndex = -1 /\ index >= t THEN self.cellSize
             ELSE 0
    IN  [self |-> self, out |-> Pos(x, 0)]

\* hooks/useDragAndDrop.ts getItemTransform of the dock hook: the x of the
\* strategy's offset for the hook's refs and the externalDragItem prop
DockGetItemTransform(self, index, placeholderRef, originalIndex, active, ext) ==
    LET isInternalDragActive == active /\ originalIndex # -1
        r == horizontalCalculateTransform(self, index, placeholderRef,
                 IF isInternalDragActive THEN originalIndex
                 ELSE IF ext THEN -1 ELSE originalIndex,
                 active)
    IN  IF placeholderRef = NoIndex THEN [self |-> self, out |-> Pos(0, 0)]
        ELSE [self |-> r.self, out |-> Pos(r.out.x, 0)]

\* calculateZShapedOffset of the grid strategy
calculateZShapedOffset(self, origIdx, visIdx) ==
    IF origIdx = visIdx THEN Pos(0, 0)
    ELSE Pos(((visIdx % self.columns) - (origIdx % self.columns)) * self.cellSize,
             ((visIdx \div self.columns) - (origIdx \div self.columns)) * self.cellSize)

\* utils/dragStrategies.ts createGridStrategy().calculateTransform
gridCalculateTransform(self, index, targetSlot, originalIndex, isDragging) ==
    LET t == targetSlot[1]
        out == IF targetSlot = NoIndex THEN Pos(0, 0)
               ELSE IF originalIndex = -1
               THEN IF index >= t THEN calculateZShapedOffset(self, index, index + 1)
                    ELSE Pos(0, 0)
               ELSE IF isDragging
               THEN IF index = originalIndex THEN Pos(0, 0)
                    ELSE IF originalIndex > t /\ index >= t /\ index < originalIndex
                    THEN calculateZShapedOffset(self, index, index + 1)
                    ELSE IF originalIndex < t /\ index > originalIndex /\ index <= t
                    THEN calculateZShapedOffset(self, index, index - 1)
                    ELSE Pos(0, 0)
               ELSE Pos(0, 0)
    IN  [self |-> self, out |-> out]

TransformFns == {"horizontalCalculateTransform", "gridCalculateTransform",
                 "getItemTransform"}

\* the arguments of one displacement call; ext is the externalDragItem prop
\* being set and is read by the hook's getItemTransform only
TransformArgs(fn) ==
    {[index |-> i, targetSlot |-> t, originalIndex |-> o, isDragging |-> d, ext |-> x] :
        <<i, t, o, d, x>> \in
            {<<i, t, o, d, x>> \in (0..MaxSlot)
                    \X ({NoIndex} \cup {<<k>> : k \in 0..(MaxSlot + 1)})
                    \X (-1..MaxSlot) \X BOOLEAN \X BOOLEAN :
                fn # "getItemTransform" => ~x}}

\* the calls made between two calls with the same arguments
OtherArgs ==
    {[index |-> 1, targetSlot |-> <<0>>, originalIndex |-> -1,
      isDragging |-> FALSE, ext |-> FALSE],
     [index |-> 2, targetSlot |-> <<MaxSlot>>, originalIndex |-> 0,
      isDragging |-> TRUE, ext |-> FALSE]}

\* a strategy object and three calls of its displacement function in a row:
\* one, another with other arguments, and the first again
TransformCalls ==
    {[fn |-> f, args |-> <<a, b, a>>] :
        <<f, a, b>> \in {<<f, a, b>> \in TransformFns
                                \X TransformArgs("getItemTransform") \X OtherArgs :
                            a \in TransformArgs(f)}}

\* the call's function applied to the closure self and the arguments a
Transform(fn, self, a) ==
    IF fn = "horizontalCalculateTransform"
    THEN horizontalCalculateTransform(self, a.index, a.targetSlot,
                                      a.originalIndex, a.isDragging)
    ELSE IF fn = "gridCalculateTransform"
    THEN gridCalculateTransform(self, a.index, a.targetSlot,
                                a.originalIndex, a.isDragging)
    ELSE DockGetItemTransform(self, a.index, a.targetSlot, a.originalIndex,
                              a.isDragging, a.ext)

MaxSnap == 3      \* longest layout snapshot handed to the index functions

RowIds == <<"a", "b", "c", "d">>

\* the snapshot captured from a dock row of n items
RowSnapshot(n) == DockSnapshot([k \in 1..n |-> AppItem(RowIds[k])])

\* pointer x positions over a row of n items: one pixel left of, on and one
\* pixel right of every centre, left of the row and right of it
LinearXs(n) ==
    {DockItemCenterX(i) + d : i \in 0..(n - 1), d \in {-1, 0, 1}}
        \cup {DockOrigin.x - DOCK_ITEM_GAP, DockItemLeft(n) + DOCK_ITEM_GAP}

\* the smallest member of a non-empty set of integers
Least(S) == CHOOSE k \in S : \A j \in S : k <= j

\* utils/dragStrategies.ts createHorizontalStrategy().calculatePlaceholder,
\* with the comparison turned round
calculatePlaceholder_rightOf(mouseX, snapshot, itemCount) ==
    LET hit == {i \in 0..(Len(snapshot) - 1) : mouseX > snapshot[i + 1].centerX}
    IN  IF hit = {} THEN itemCount ELSE Least(hit)

\* utils/dragStrategies.ts createHorizontalStrategy().calculatePlaceholder
calculatePlaceholder(mouseX, snapshot, itemCount) ==
    LET hit == {i \in 0..(Len(snapshot) - 1) : mouseX < snapshot[i + 1].centerX}
    IN  IF hit = {} THEN itemCount ELSE Least(hit)

\* main.tsx calculateHorizontalReorderIndex
calculateHorizontalReorderIndex(mouseX, snapshot, itemCount) ==
    LET hit == {i \in 0..(Len(snapshot) - 1) : mouseX < snapshot[i + 1].centerX}
    IN  IF itemCount = 0 THEN 0
        ELSE IF hit = {} THEN itemCount ELSE Least(hit)

\* utils/dragUtils.ts calculateInsertIndex; itemRefs[k] is <<>> for a null
\* ref and <<rect>> for a mounted element
calculateInsertIndex(mouseX, itemRefs, itemCount) ==
    LET hit == {i \in 0..(Len(itemRefs) - 1) :
                   /\ itemRefs[i + 1] # <<>>
                   /\ mouseX < itemRefs[i + 1][1].left
                                + (itemRefs[i + 1][1].right
                                     - itemRefs[i + 1][1].left) \div 2}
    IN  IF hit = {} THEN itemCount ELSE Least(hit)

LinearFns ==
    {"calculatePlaceholder", "calculateHorizontalReorderIndex", "calculateInsertIndex"}

\* the refs of a row of n items of which those in mounted are in the page
RowRefs(n, mounted) ==
    [k \in 1..n |-> IF k \in mounted THEN <<RowSnapshot(n)[k].rect>> ELSE <<>>]

\* a call of one of the three linear index functions: a row of n items, the
\* length of the list at the time of the call, the pointer x
LinearCalls ==
    {[fn |-> f, n |-> n, mounted |-> m, itemCount |-> c, mouseX |-> x] :
        <<f, n, m, c, x>> \in
            {<<f, n, m, c, x>> \in LinearFns \X (0..MaxSnap) \X (SUBSET (1..MaxSnap))
                                      \X (0..(MaxSnap + 1)) \X LinearXs(MaxSnap) :
                /\ m \subseteq 1..n
                /\ (f # "calculateInsertIndex" => m = 1..n)
                /\ c >= n - 1 /\ c <= n + 1
                /\ x \in LinearXs(n)}}

\* the index the called function returns for the call's row and count at x
LinearIndex(call, x) ==
    IF call.fn = "calculatePlaceholder"
    THEN calculatePlaceholder(x, RowSnapshot(call.n), call.itemCount)
    ELSE IF call.fn = "calculateHorizontalReorderIndex"
    THEN calculateHorizontalReorderIndex(x, RowSnapshot(call.n), call.itemCount)
    ELSE calculateInsertIndex(x, RowRefs(call.n, call.mounted), call.itemCount)

\* pointer positions around the empty dock: on its bounds grown by the
\* buffer, one pixel beyond them and inside
EmptyDockPoints ==
    {Pos(x, y) :
        x \in {DockRect(0).left - DOCK_DRAG_BUFFER - 1,
               DockRect(0).left - DOCK_DRAG_BUFFER,
               DockRect(0).left, DockOrigin.x - HALF_ITEM,
               DockRect(0).right + DOCK_DRAG_BUFFER,
               DockRect(0).right + DOCK_DRAG_BUFFER + 1},
        y \in {DockRect(0).top - DOCK_DRAG_BUFFER - 1,
               DockRect(0).top - DOCK_DRAG_BUFFER,
               DockRowY,
               DockRect(0).bottom + DOCK_DRAG_BUFFER,
               DockRect(0).bottom + DOCK_DRAG_BUFFER + 1}}

\* pointer-moves of an external drag over the empty dock: the dragged item
\* and the positions of two moves in a row
EmptyDockCalls ==
    {[fn |-> "emptyDockMove", item |-> i, first |-> e1, mouse |-> e2] :
        <<i, e1, e2>> \in {AppItem("a"), FolderItem("F", <<AppItem("c"), AppItem("d")>>)}
                            \X EmptyDockPoints \X EmptyDockPoints}

MaxMerge == 3      \* longest snapshot handed to the merge detection

\* no merge target: the null detectMergeTarget returns
NoTarget == [id |-> NULL, type |-> "none"]

RECURSIVE detectMergeTarget_firstClose(_, _, _, _, _, _)
\* the same scan giving up at the first entry within the threshold
detectMergeTarget_firstClose(draggedCenter, layoutSnapshot, activeItemId, items, threshold, k) ==
    IF k > Len(layoutSnapshot) THEN NoTarget
    ELSE IF CloserThan(draggedCenter,
                       Pos(layoutSnapshot[k].centerX, layoutSnapshot[k].centerY),
                       threshold)
    THEN IF HasId(items, layoutSnapshot[k].id) /\ layoutSnapshot[k].id # activeItemId
         THEN [id   |-> layoutSnapshot[k].id,
               type |-> FindById(items, layoutSnapshot[k].id).type]
         ELSE NoTarget
    ELSE detectMergeTarget_firstClose(draggedCenter, layoutSnapshot, activeItemId,
                                      items, threshold, k + 1)

RECURSIVE detectMergeTarget(_, _, _, _, _, _)
\* main.tsx detectMergeTarget, the for loop from entry k on
detectMergeTarget(draggedCenter, layoutSnapshot, activeItemId, items, threshold, k) ==
    IF k > Len(layoutSnapshot) THEN NoTarget
    ELSE IF /\ CloserThan(draggedCenter,
                          Pos(layoutSnapshot[k].centerX, layoutSnapshot[k].centerY),
                          threshold)
            /\ HasId(items, layoutSnapshot[k].id)
            /\ layoutSnapshot[k].id # activeItemId
    THEN [id   |-> layoutSnapshot[k].id,
          type |-> FindById(items, layoutSnapshot[k].id).type]
    ELSE detectMergeTarget(draggedCenter, layoutSnapshot, activeItemId, items,
                           threshold, k + 1)

\* the threshold detectMergeTarget takes when none is passed
DETECT_MERGE_DEFAULT == 25

MergeFns == {"detectMergeTarget", "handleMouseMove.merge"}

MergeRow == <<AppItem("a"), FolderItem("F", <<AppItem("c"), AppItem("d")>>),
              AppItem("b"), FolderItem("G", <<AppItem("e"), AppItem("f")>>)>>

\* a snapshot of the first n entries of the row, their slots spacing apart
MergeSnapshot(n, spacing) ==
    [k \in 1..n |-> LayoutItem(MergeRow[k].id, k - 1,
                               DockOrigin.x + (k - 1) * spacing, DockOrigin.y)]

\* offsets of the dragged centre from a snapshot centre: on it, and at
\* distances 24, 25, 29 and 30 along an axis and along a diagonal
MergeOffsets ==
    {Pos(0, 0), Pos(24, 0), Pos(25, 0), Pos(15, 20), Pos(29, 0), Pos(30, 0),
     Pos(18, 24), Pos(0 - 24, 18)}

\* a call of the merge detection: a snapshot of n entries, tightly packed or
\* a dock cell apart, the item list with at most one entry gone since the
\* capture, the id of the active item (x is an item of another container),
\* and the centre of the dragged item
MergeCalls ==
    {[fn |-> f, snapshot |-> MergeSnapshot(n, sp),
      items |-> IF gone = 0 THEN SubSeq(MergeRow, 1, n)
                ELSE FilterOutId(SubSeq(MergeRow, 1, n), MergeRow[gone].id),
      activeItemId |-> a, threshold |-> t,
      draggedCenter |-> Pos(MergeSnapshot(n, sp)[k].centerX + o.x,
                            MergeSnapshot(n, sp)[k].centerY + o.y)] :
        <<f, n, sp, gone, a, t, k, o>> \in
            {<<f, n, sp, gone, a, t, k, o>> \in
                MergeFns \X (1..Min(MaxMerge, Len(MergeRow))) \X {20, DOCK_CELL_SIZE}
                    \X (0..MaxMerge) \X {"a", "F", "b", "x"}
                    \X {DETECT_MERGE_DEFAULT, MERGE_DISTANCE_THRESHOLD}
                    \X (1..MaxMerge) \X MergeOffsets :
                /\ gone <= n
                /\ k <= n
                /\ f = "handleMouseMove.merge" => t = MERGE_DISTANCE_THRESHOLD}}

InitPure ==
    /\ pureIn \in ReorderCalls \cup DissolveCalls \cup LinearCalls \cup GridCalls
                    \cup EmptyDockCalls \cup TransformCalls \cup MergeCalls
    /\ pureMem = IF pureIn.fn = "reorderList" THEN pureIn.list
                 ELSE IF pureIn.fn = "dissolve" THEN pureIn.items
                 ELSE IF pureIn.fn = "gridCalculateTransform" THEN <<GridStrategy>>
                 ELSE IF pureIn.fn \in TransformFns THEN <<HorizontalStrategy>>
                 ELSE <<>>
    /\ pureOut = <<>>
    /\ dockItems = IF pureIn.fn \in MergeFns THEN pureIn.items ELSE <<>>
    /\ openFolderId = NULL
    /\ lastOp = "none"
    /\ SessionAtRest

ApplyReorderList ==
    /\ pureIn.fn = "reorderList"
    /\ pureOut = <<>>
    /\ LET r == reorderList(pureIn.list, pureIn.startIndex, pureIn.endIndex)
       IN  /\ pureMem' = r.arg
           /\ pureOut' = <<r.result>>
    /\ UNCHANGED <<pureIn, appVars, sessVars>>

ApplyDissolve ==
    /\ pureIn.fn = "dissolve"
    /\ pureOut = <<>>
    /\ pureOut' = <<checkAndDissolveFolderIfNeeded(pureIn.folderId, pureIn.items)>>
    /\ UNCHANGED <<pureIn, pureMem, appVars, sessVars>>

ApplyLinearIndex ==
    /\ pureIn.fn \in LinearFns
    /\ pureOut = <<>>
    /\ pureOut' = <<LinearIndex(pureIn, pureIn.mouseX)>>
    /\ UNCHANGED <<pureIn, pureMem, appVars, sessVars>>

ApplyGridIndex ==
    /\ pureIn.fn = "calculateFolderDropIndex"
    /\ pureOut = <<>>
    /\ pureOut' = <<calculateFolderDropIndex(pureIn.mouse, GridSnapshot(pureIn.n),
                                             pureIn.itemCount, pureIn.containerRect)>>
    /\ UNCHANGED <<pureIn, pureMem, appVars, sessVars>>


--------------------------------------------------------------------------
(* The drag sessions.  One DOM event is one action: it runs, in order,     *)
(* every listener registered for it, and React renders once when they have *)
(* all returned.  A handler therefore reads the refs as the last render    *)
(* left them and writes the pending state; Render copies the state into    *)
(* the refs and runs the effects.  The world is the record the handlers    *)
(* thread through; the items prop is held fixed, the list callbacks are    *)
(* recorded in calls with the session phase they were invoked in.          *)

World ==
    [dock             |-> dockHook,
     folder           |-> folderHook,
     draggingItem     |-> draggingItem,
     externalDragItem |-> draggingItem,
     openFolderId     |-> openFolderId,
     flag             |-> folderHasActivePlaceholder,
     anims            |-> anims,
     calls            |-> calls]

\* the folder whose view is on screen and its items prop
FolderItems == IF FolderViewOpen THEN OpenFolder.items ELSE <<>>

Call(w, hook, cb, item, target, list, pos, via) ==
    [w EXCEPT !.calls = Append(@,
        [cb |-> cb, hook |-> hook, item |-> item.id, target |-> target,
         list |-> list, pos |-> pos, phase |-> Phase(w[hook].dragState),
         via |-> via])]

Ids(items) == [k \in 1..Len(items) |-> items[k].id]

\* App.tsx: onDragStart={(item) => setDraggingItem(item)}
onDragStart(w, hook, item) ==
    [Call(w, hook, "onDragStart", item, NULL, <<>>, NoPos, "move")
        EXCEPT !.draggingItem = item]

\* App.tsx: onDragEnd={() => setDraggingItem(null)}
onDragEnd(w, hook, via) ==
    [Call(w, hook, "onDragEnd", NoItem, NULL, <<>>, NoPos, via)
        EXCEPT !.draggingItem = NoItem]

\* App.tsx handleHoverOpenFolder, reached through the dock's onHoverOpenFolder
onHoverOpenFolder(w, item, target) ==
    LET st == handleHoverOpenFolder(
                 [dockItems |-> dockItems, openFolderId |-> w.openFolderId], target)
    IN  [Call(w, "dock", "onHoverOpenFolder", item, target.id, <<>>, NoPos, "move")
            EXCEPT !.openFolderId = st.openFolderId]

\* useDragBase startDragging: the gesture becomes a drag, the layout is
\* captured and the coordinator is told which item is in flight
startDragging(w, hook, item) ==
    LET snap == IF hook = "dock" THEN DockSnapshot(dockItems)
                ELSE FolderSnapshot(FolderItems)
        w1 == [w EXCEPT ![hook].hasMovedRef = TRUE,
                        ![hook].dragState.isDragging = TRUE,
                        ![hook].layoutSnapshotRef = snap]
    IN  onDragStart(w1, hook, item)

\* the same writes without the reset of the pre-merge flag
ClearMergeStates_keepsPreMerge(d) ==
    [d EXCEPT !.hoveredFolderId = NULL, !.hoveredAppId = NULL,
              !.mergeTargetId = NULL, !.potentialMergeTarget = NULL]

\* the five writes the dock hook repeats wherever it leaves merge tracking
ClearMergeStates(d) ==
    [d EXCEPT !.hoveredFolderId = NULL, !.hoveredAppId = NULL,
              !.mergeTargetId = NULL, !.isPreMerge = FALSE,
              !.potentialMergeTarget = NULL]

\* utils/dragDetection isMouseOverFolderView
isMouseOverFolderView(e) ==
    FolderViewOpen /\ InRect(e, FolderRect(Len(FolderItems)), 0)

\* the same search without the test that skips the active item
FoundMergeTarget_withActive(snapshot, draggedCenter, activeId) ==
    LET hits == {k \in 1..Len(snapshot) :
                    /\ CloserThan(draggedCenter,
                                  Pos(snapshot[k].centerX, snapshot[k].centerY),
                                  MERGE_DISTANCE_THRESHOLD)
                    /\ HasId(dockItems, snapshot[k].id)}
    IN  IF hits = {} THEN NoItem
        ELSE FindById(dockItems,
                      snapshot[CHOOSE k \in hits : \A j \in hits : k <= j].id)

\* the first snapshot entry within merge distance that still names an item
\* other than the active one, NoItem when there is none
FoundMergeTarget(snapshot, draggedCenter, activeId) ==
    LET hits == {k \in 1..Len(snapshot) :
                    /\ CloserThan(draggedCenter,
                                  Pos(snapshot[k].centerX, snapshot[k].centerY),
                                  MERGE_DISTANCE_THRESHOLD)
                    /\ HasId(dockItems, snapshot[k].id)
                    /\ snapshot[k].id # activeId}
    IN  IF hits = {} THEN NoItem
        ELSE FindById(dockItems,
                      snapshot[CHOOSE k \in hits : \A j \in hits : k <= j].id)

\* the slot before the first snapshot centre right of the pointer
DockTargetIndex(snapshot, mouseX) ==
    LET right == {k \in 1..Len(snapshot) : mouseX < snapshot[k].centerX}
    IN  IF right = {} THEN Len(dockItems)
        ELSE (CHOOSE k \in right : \A j \in right : k <= j) - 1

DockHover_preMergeAtDelay(w, e, state, activeItem) ==
    LET d        == w.dock
        snapshot == d.layoutSnapshotRef
        center   == IF state.isDragging
                    THEN Pos(e.x - state.offset.x + HALF_ITEM,
                             e.y - state.offset.y + HALF_ITEM)
                    ELSE e
        found    == FoundMergeTarget(snapshot, center, activeItem.id)
        dwell    == now - d.hoverStartTime
    IN  IF found.id # NULL
        THEN IF d.potentialMergeTarget # found.id
             THEN [w EXCEPT !.dock =
                     [d EXCEPT !.potentialMergeTarget = found.id,
                               !.hoverStartTime = now,
                               !.isPreMerge = FALSE, !.mergeTargetId = NULL,
                               !.hoveredFolderId = NULL, !.hoveredAppId = NULL]]
             ELSE IF found.type = "folder" /\ dwell > HOVER_OPEN_DELAY
                        /\ ~d.isPreMergeRef
                  THEN [onHoverOpenFolder(w, activeItem, found)
                           EXCEPT !.dock.potentialMergeTarget = NULL]
                  ELSE IF dwell >= PRE_MERGE_DELAY /\ ~d.isPreMergeRef
                       THEN [w EXCEPT !.dock =
                               [d EXCEPT !.isPreMerge = TRUE,
                                         !.mergeTargetId = found.id,
                                         !.hoveredFolderId =
                                            IF found.type = "folder"
                                            THEN found.id ELSE NULL,
                                         !.hoveredAppId =
                                            IF found.type = "folder"
                                            THEN NULL ELSE found.id]]
                       ELSE w
        ELSE [w EXCEPT !.dock =
                [d EXCEPT !.potentialMergeTarget = NULL,
                          !.isPreMerge = FALSE,
                          !.placeholderIndex =
                             IF Len(snapshot) > 0 /\ Len(dockItems) > 0
                             THEN <<DockTargetIndex(snapshot, e.x)>>
                             ELSE <<0>>]]

\* handleMouseMove from the merge detection on: dwell on a target, or the
\* placeholder slot when there is none
DockHover(w, e, state, activeItem) ==
    LET d        == w.dock
        snapshot == d.layoutSnapshotRef
        center   == IF state.isDragging
                    THEN Pos(e.x - state.offset.x + HALF_ITEM,
                             e.y - state.offset.y + HALF_ITEM)
                    ELSE e
        found    == FoundMergeTarget(snapshot, center, activeItem.id)
        dwell    == now - d.hoverStartTime
    IN  IF found.id # NULL
        THEN IF d.potentialMergeTarget # found.id
             THEN [w EXCEPT !.dock =
                     [d EXCEPT !.potentialMergeTarget = found.id,
                               !.hoverStartTime = now,
                               !.isPreMerge = FALSE, !.mergeTargetId = NULL,
                               !.hoveredFolderId = NULL, !.hoveredAppId = NULL]]
             ELSE IF found.type = "folder" /\ dwell > HOVER_OPEN_DELAY
                        /\ ~d.isPreMergeRef
                  THEN [onHoverOpenFolder(w, activeItem, found)
                           EXCEPT !.dock.potentialMergeTarget = NULL]
                  ELSE IF dwell > PRE_MERGE_DELAY /\ ~d.isPreMergeRef
                       THEN [w EXCEPT !.dock =
                               [d EXCEPT !.isPreMerge = TRUE,
                                         !.mergeTargetId = found.id,
                                         !.hoveredFolderId =
                                            IF found.type = "folder"
                                            THEN found.id ELSE NULL,
                                         !.hoveredAppId =
                                            IF found.type = "folder"
                                            THEN NULL ELSE found.id]]
                       ELSE w
        ELSE [w EXCEPT !.dock =
                [d EXCEPT !.potentialMergeTarget = NULL,
                          !.isPreMerge = FALSE,
                          !.placeholderIndex =
                             IF Len(snapshot) > 0 /\ Len(dockItems) > 0
                             THEN <<DockTargetIndex(snapshot, e.x)>>
                             ELSE <<0>>]]

\* the same handler measuring the items anew on every move, as they are
\* shown: the items from the placeholder slot on are squeezed one cell right
DockHandleMouseMove_liveLayout(w, e) ==
    LET d          == w.dock
        state      == d.dragRef
        ext        == w.externalDragItem
        activeItem == IF state.isDragging THEN state.item ELSE ext
        starting   == ~state.isDragging /\ ext.id = NULL /\ state.item.id # NULL
        crossed    == FartherThan(e, state.startPosition, DRAG_THRESHOLD)
        w1         == IF starting /\ crossed
                      THEN startDragging(w, "dock", state.item) ELSE w
        shown      == [k \in 1..Len(dockItems) |->
                         LayoutItem(dockItems[k].id, k - 1,
                             DockItemLeft(k - 1)
                                + (IF d.placeholderRef # NoIndex
                                      /\ k - 1 >= d.placeholderRef[1]
                                   THEN DOCK_CELL_SIZE ELSE 0),
                             DockOrigin.y)]
        w2         == [w1 EXCEPT !.dock.layoutSnapshotRef = shown]
        cleared    == [w2 EXCEPT !.dock =
                         [ClearMergeStates(w2.dock) EXCEPT !.placeholderIndex = NoIndex]]
    IN  IF starting /\ ~crossed THEN w
        ELSE IF activeItem.id = NULL THEN w1
        ELSE IF activeItem.type # "folder" /\ isMouseOverFolderView(e) THEN cleared
        ELSE IF ~InRect(e, DockRect(Len(dockItems)), DOCK_DRAG_BUFFER) THEN cleared
        ELSE DockHover(w2, e, state, activeItem)

\* the same handler testing the dock's bounds without the buffer
DockHandleMouseMove_noBuffer(w, e) ==
    LET d          == w.dock
        state      == d.dragRef
        ext        == w.externalDragItem
        activeItem == IF state.isDragging THEN state.item ELSE ext
        starting   == ~state.isDragging /\ ext.id = NULL /\ state.item.id # NULL
        crossed    == FartherThan(e, state.startPosition, DRAG_THRESHOLD)
        w1         == IF starting /\ crossed
                      THEN startDragging(w, "dock", state.item) ELSE w
        w2         == IF Len(w1.dock.layoutSnapshotRef) = 0 /\ Len(dockItems) > 0
                      THEN [w1 EXCEPT !.dock.layoutSnapshotRef = DockSnapshot(dockItems)]
                      ELSE w1
        cleared    == [w2 EXCEPT !.dock =
                         [ClearMergeStates(w2.dock) EXCEPT !.placeholderIndex = NoIndex]]
    IN  IF starting /\ ~crossed THEN w
        ELSE IF activeItem.id = NULL THEN w1
        ELSE IF activeItem.type # "folder" /\ isMouseOverFolderView(e) THEN cleared
        ELSE IF ~InRect(e, DockRect(Len(dockItems)), 0) THEN cleared
        ELSE DockHover(w2, e, state, activeItem)

\* handleMouseMove of the dock hook (useDragAndDrop.ts:112-313)
DockHandleMouseMove(w, e) ==
    LET d          == w.dock
        state      == d.dragRef
        ext        == w.externalDragItem
        activeItem == IF state.isDragging THEN state.item ELSE ext
        starting   == ~state.isDragging /\ ext.id = NULL /\ state.item.id # NULL
        crossed    == FartherThan(e, state.startPosition, DRAG_THRESHOLD)
        w1         == IF starting /\ crossed
                      THEN startDragging(w, "dock", state.item) ELSE w
        w2         == IF Len(w1.dock.layoutSnapshotRef) = 0 /\ Len(dockItems) > 0
                      THEN [w1 EXCEPT !.dock.layoutSnapshotRef = DockSnapshot(dockItems)]
                      ELSE w1
        cleared    == [w2 EXCEPT !.dock =
                         [ClearMergeStates(w2.dock) EXCEPT !.placeholderIndex = NoIndex]]
    IN  IF starting /\ ~crossed THEN w
        ELSE IF activeItem.id = NULL THEN w1
        ELSE IF activeItem.type # "folder" /\ isMouseOverFolderView(e) THEN cleared
        ELSE IF ~InRect(e, DockRect(Len(dockItems)), DOCK_DRAG_BUFFER) THEN cleared
        ELSE DockHover(w2, e, state, activeItem)

\* the candidate handleMouseMove finds for a move to e: NoItem when it
\* returns before the merge detection or when the detection finds none
DockCandidate(w, e) ==
    LET d          == w.dock
        state      == d.dragRef
        ext        == w.externalDragItem
        activeItem == IF state.isDragging THEN state.item ELSE ext
        starting   == ~state.isDragging /\ ext.id = NULL /\ state.item.id # NULL
        snapshot   == IF Len(d.layoutSnapshotRef) = 0 /\ Len(dockItems) > 0
                      THEN DockSnapshot(dockItems) ELSE d.layoutSnapshotRef
        center     == IF state.isDragging
                      THEN Pos(e.x - state.offset.x + HALF_ITEM,
                               e.y - state.offset.y + HALF_ITEM)
                      ELSE e
    IN  IF starting \/ activeItem.id = NULL THEN NoItem
        ELSE IF activeItem.type # "folder" /\ isMouseOverFolderView(e) THEN NoItem
        ELSE IF ~InRect(e, DockRect(Len(dockItems)), DOCK_DRAG_BUFFER) THEN NoItem
        ELSE FoundMergeTarget(snapshot, center, activeItem.id)

\* the move to e finds the folder the hook is tracking, more than
\* HOVER_OPEN_DELAY after it began to track it
LateOnFolder(w, e) ==
    LET found == DockCandidate(w, e)
    IN  /\ found.id # NULL
        /\ found.type = "folder"
        /\ w.dock.potentialMergeTarget = found.id
        /\ now - w.dock.hoverStartTime > HOVER_OPEN_DELAY

\* the move to e takes handleMouseMove to one of its two early returns: the
\* pointer is over the folder view and the active item is no folder, or it
\* is outside the dock's bounds grown by DOCK_DRAG_BUFFER
DockMoveAway(w, e) ==
    LET state      == w.dock.dragRef
        ext        == w.externalDragItem
        activeItem == IF state.isDragging THEN state.item ELSE ext
        starting   == ~state.isDragging /\ ext.id = NULL /\ state.item.id # NULL
    IN  /\ ~starting
        /\ activeItem.id # NULL
        /\ \/ activeItem.type # "folder" /\ isMouseOverFolderView(e)
           \/ ~InRect(e, DockRect(Len(dockItems)), DOCK_DRAG_BUFFER)

\* getBoundingClientRect() of the pressed element
PressedRect(hook, index) ==
    IF hook = "dock" THEN ItemRect(DockItemLeft(index), DockOrigin.y)
    ELSE ItemRect(FolderItemLeft(index), FolderItemTop(index))

\* the createDragState option each hook hands to createMouseDownHandler
createDragState(hook, item, index, rect, start, offset) ==
    IF hook = "dock"
    THEN [IdleDragState EXCEPT !.item = item, !.originalIndex = index,
                               !.currentPosition = Pos(rect.left, rect.top),
                               !.startPosition = start, !.offset = offset]
    ELSE [IdleDragState EXCEPT !.isDragging = TRUE, !.item = item,
                               !.originalIndex = index,
                               !.currentPosition = start,
                               !.startPosition = start, !.offset = offset,
                               !.targetAction = "reorder"]

\* utils/dragUtils.ts createMouseDownHandler, up to the listeners it adds
createMouseDownHandler_noEditGuard(w, hook, item, index, e) ==
    LET rect == PressedRect(hook, index)
    IN  [w EXCEPT ![hook].hasMovedRef = FALSE,
                  ![hook].thresholdListenerRef = TRUE,
                  ![hook].press =
                     [upListening |-> TRUE, dragDataSet |-> FALSE,
                      item |-> item, index |-> index, start |-> e,
                      offset |-> Pos(e.x - rect.left, e.y - rect.top)]]

createMouseDownHandler(w, hook, item, index, e) ==
    IF ~isEditMode THEN w
    ELSE LET rect == PressedRect(hook, index)
         IN  [w EXCEPT ![hook].hasMovedRef = FALSE,
                       ![hook].thresholdListenerRef = TRUE,
                       ![hook].press =
                          [upListening |-> TRUE, dragDataSet |-> FALSE,
                           item |-> item, index |-> index, start |-> e,
                           offset |-> Pos(e.x - rect.left, e.y - rect.top)]]

moveThresholdCheck_atThreshold(w, hook, e) ==
    LET pr == w[hook].press
        w1 == [w EXCEPT ![hook].hasMovedRef = TRUE]
        w2 == [w1 EXCEPT ![hook].press.dragDataSet = TRUE,
                         ![hook].dragState =
                            createDragState(hook, pr.item, pr.index,
                                PressedRect(hook, pr.index), pr.start, pr.offset)]
        w3 == IF pr.dragDataSet THEN w1
              ELSE IF hook = "folder" THEN startDragging(w2, "folder", pr.item)
              ELSE w2
    IN  IF ~CloserThan(e, pr.start, MOVE_THRESHOLD)
        THEN [w3 EXCEPT ![hook].thresholdListenerRef = FALSE,
                        ![hook].moveListening = TRUE]
        ELSE w

\* moveThresholdCheck, the mousemove listener of a press not yet a drag
moveThresholdCheck(w, hook, e) ==
    LET pr == w[hook].press
        w1 == [w EXCEPT ![hook].hasMovedRef = TRUE]
        w2 == [w1 EXCEPT ![hook].press.dragDataSet = TRUE,
                         ![hook].dragState =
                            createDragState(hook, pr.item, pr.index,
                                PressedRect(hook, pr.index), pr.start, pr.offset)]
        w3 == IF pr.dragDataSet THEN w1
              ELSE IF hook = "folder" THEN startDragging(w2, "folder", pr.item)
              ELSE w2
    IN  IF FartherThan(e, pr.start, MOVE_THRESHOLD)
        THEN [w3 EXCEPT ![hook].thresholdListenerRef = FALSE,
                        ![hook].moveListening = TRUE]
        ELSE w

\* strategy.calculateTransform of the horizontal strategy, its x component
calculateTransform(index, targetSlot, originalIndex, isDragging) ==
    IF targetSlot = NoIndex THEN 0
    ELSE LET slot == targetSlot[1]
         IN  IF isDragging /\ originalIndex # -1
             THEN IF index = originalIndex THEN 0
                  ELSE IF slot = originalIndex \/ slot = originalIndex + 1 THEN 0
                  ELSE IF originalIndex < slot
                       THEN IF index > originalIndex /\ index < slot
                            THEN 0 - DOCK_CELL_SIZE ELSE 0
                       ELSE IF index >= slot /\ index < originalIndex
                            THEN DOCK_CELL_SIZE ELSE 0
             ELSE IF originalIndex = -1 /\ index >= slot THEN DOCK_CELL_SIZE
             ELSE 0

\* getItemTransform of the dock hook
getItemTransform(d, ext, index) ==
    LET state == d.dragRef
        isInternalDragActive ==
            (state.isDragging \/ state.isAnimatingReturn) /\ state.originalIndex # -1
    IN  calculateTransform(index, d.placeholderRef,
            IF isInternalDragActive THEN state.originalIndex
            ELSE IF ext.id # NULL THEN -1 ELSE state.originalIndex,
            state.isDragging \/ state.isAnimatingReturn)

\* handleMouseUp, reorder branch: where the ghost flies back to
DockReorderTarget(d, ext, oldIndex, insertIndex) ==
    LET others == {i \in 0..(Len(dockItems) - 1) : i # oldIndex}
        snapshot == d.layoutSnapshotRef
    IN  IF others # {}
        THEN LET first  == CHOOSE i \in others : \A j \in others : i <= j
                 visual == IF oldIndex # -1 /\ first > oldIndex
                           THEN first - 1 ELSE first
                 baseX  == DockItemLeft(first) + getItemTransform(d, ext, first)
                              - visual * DOCK_CELL_SIZE
             IN  Pos(baseX + insertIndex * DOCK_CELL_SIZE, DockOrigin.y)
        ELSE IF Len(snapshot) > 0
        THEN Pos(snapshot[1].rect.left + insertIndex * DOCK_CELL_SIZE,
                 snapshot[1].rect.top)
        ELSE LET r == DockRect(Len(dockItems))
             IN  Pos(r.left + DOCK_ITEM_GAP + insertIndex * DOCK_CELL_SIZE,
                     r.top + DOCK_ITEM_GAP)

\* DragPreview renders the ghost while isActive: dragging or flying back
GhostMounted(h) ==
    (h.dragRef.isDragging \/ h.dragRef.isAnimatingReturn) /\ h.dragRef.item.id # NULL

\* utils/animations onReturnAnimationComplete: one closure with its
\* completed flag, its transitionend listener and its fallback timer
onReturnAnimationComplete_noFallback(w, element) ==
    [w EXCEPT !.anims = Append(@,
        [element |-> element, completed |-> FALSE, timer |-> FALSE,
         listening |-> element])]

onReturnAnimationComplete(w, element) ==
    [w EXCEPT !.anims = Append(@,
        [element |-> element, completed |-> FALSE, timer |-> TRUE,
         listening |-> element])]

NoPlan == [pos |-> NoPos, action |-> "none", data |-> NoData]

\* the same choice with the pre-merge branch tested before the folder flag
DockDropPlan_preMergeFirst(w, state) ==
    LET d        == w.dock
        snapshot == d.layoutSnapshotRef
        SnapPos(id) ==
            LET k == FindIndexById(snapshot, id)
            IN  IF k = -1 THEN NoPos
                ELSE <<Pos(snapshot[k + 1].rect.left, snapshot[k + 1].rect.top)>>
        r        == FolderRect(Len(FolderItems))
        hf       == d.hoveredFolderRef
        ha       == d.hoveredAppRef
    IN  IF state.item.type # "folder" /\ w.flag /\ ~d.isPreMergeRef
        THEN IF FolderViewOpen
             THEN [pos    |-> <<Pos(r.left + (r.right - r.left) \div 2 - HALF_ITEM,
                                    r.top + (r.bottom - r.top) \div 2 - HALF_ITEM)>>,
                   action |-> "dragToOpenFolder",
                   data   |-> [type |-> "dragToOpenFolder", item |-> state.item]]
             ELSE NoPlan
        ELSE IF d.isPreMergeRef
        THEN IF hf # NULL
             THEN IF HasId(dockItems, hf)
                  THEN [pos |-> SnapPos(hf), action |-> "dropToFolder",
                        data |-> [type |-> "dropToFolder", item |-> state.item,
                                  targetFolder |-> FindById(dockItems, hf)]]
                  ELSE [NoPlan EXCEPT !.pos = SnapPos(hf)]
             ELSE IF ha # NULL
             THEN IF HasId(dockItems, ha)
                  THEN [pos |-> SnapPos(ha), action |-> "mergeFolder",
                        data |-> [type |-> "mergeFolder", item |-> state.item,
                                  targetItem |-> FindById(dockItems, ha)]]
                  ELSE [NoPlan EXCEPT !.pos = SnapPos(ha)]
             ELSE NoPlan
        ELSE IF d.placeholderRef # NoIndex
        THEN [pos    |-> <<DockReorderTarget(d, w.externalDragItem, state.originalIndex,
                              DockInsertIndex(state.originalIndex, d.placeholderRef[1]))>>,
              action |-> "reorder",
              data   |-> [type |-> "reorder",
                          newItems |-> DockReorderItems(dockItems, state.originalIndex,
                                                        d.placeholderRef[1])]]
        ELSE NoPlan

\* handleMouseUp of the dock hook, the choice of targetPos, action, actionData
DockDropPlan(w, state) ==
    LET d        == w.dock
        snapshot == d.layoutSnapshotRef
        SnapPos(id) ==
            LET k == FindIndexById(snapshot, id)
            IN  IF k = -1 THEN NoPos
                ELSE <<Pos(snapshot[k + 1].rect.left, snapshot[k + 1].rect.top)>>
        r        == FolderRect(Len(FolderItems))
        hf       == d.hoveredFolderRef
        ha       == d.hoveredAppRef
    IN  IF state.item.type # "folder" /\ w.flag
        THEN IF FolderViewOpen
             THEN [pos    |-> <<Pos(r.left + (r.right - r.left) \div 2 - HALF_ITEM,
                                    r.top + (r.bottom - r.top) \div 2 - HALF_ITEM)>>,
                   action |-> "dragToOpenFolder",
                   data   |-> [type |-> "dragToOpenFolder", item |-> state.item]]
             ELSE NoPlan
        ELSE IF d.isPreMergeRef
        THEN IF hf # NULL
             THEN IF HasId(dockItems, hf)
                  THEN [pos |-> SnapPos(hf), action |-> "dropToFolder",
                        data |-> [type |-> "dropToFolder", item |-> state.item,
                                  targetFolder |-> FindById(dockItems, hf)]]
                  ELSE [NoPlan EXCEPT !.pos = SnapPos(hf)]
             ELSE IF ha # NULL
             THEN IF HasId(dockItems, ha)
                  THEN [pos |-> SnapPos(ha), action |-> "mergeFolder",
                        data |-> [type |-> "mergeFolder", item |-> state.item,
                                  targetItem |-> FindById(dockItems, ha)]]
                  ELSE [NoPlan EXCEPT !.pos = SnapPos(ha)]
             ELSE NoPlan
        ELSE IF d.placeholderRef # NoIndex
        THEN [pos    |-> <<DockReorderTarget(d, w.externalDragItem, state.originalIndex,
                              DockInsertIndex(state.originalIndex, d.placeholderRef[1]))>>,
              action |-> "reorder",
              data   |-> [type |-> "reorder",
                          newItems |-> DockReorderItems(dockItems, state.originalIndex,
                                                        d.placeholderRef[1])]]
        ELSE NoPlan

\* the same handler with a cancel branch that does not report the end of the drag
DockHandleMouseUp_silentCancel(w) ==
    LET d        == w.dock
        state    == d.dragRef
        plan     == DockDropPlan(w, state)
        unhooked == [d EXCEPT !.thresholdListenerRef = FALSE, !.moveListening = FALSE]
    IN  IF ~state.isDragging /\ state.item.id # NULL /\ ~d.hasMovedRef
        THEN [w EXCEPT !.dock = [unhooked EXCEPT !.hasMovedRef = FALSE,
                                                 !.dragState = IdleDragState]]
        ELSE IF state.item.id = NULL THEN w
        ELSE IF plan.pos # NoPos /\ plan.action # "none"
        THEN onReturnAnimationComplete(
                [w EXCEPT !.dock =
                    [ClearMergeStates(unhooked) EXCEPT
                        !.hasMovedRef = FALSE,
                        !.dragState = [d.dragState EXCEPT
                            !.isDragging = FALSE,
                            !.isAnimatingReturn = TRUE,
                            !.currentPosition = plan.pos[1],
                            !.targetPosition = plan.pos,
                            !.targetAction = plan.action,
                            !.targetActionData = plan.data]]],
                GhostMounted(d))
        ELSE [w EXCEPT !.dock =
                [ClearMergeStates(unhooked) EXCEPT
                    !.hasMovedRef = FALSE,
                    !.dragState = IdleDragState,
                    !.placeholderIndex = NoIndex]]

\* handleMouseUp of the dock hook (useDragAndDrop.ts:357-564)
DockHandleMouseUp(w) ==
    LET d        == w.dock
        state    == d.dragRef
        plan     == DockDropPlan(w, state)
        unhooked == [d EXCEPT !.thresholdListenerRef = FALSE, !.moveListening = FALSE]
    IN  IF ~state.isDragging /\ state.item.id # NULL /\ ~d.hasMovedRef
        THEN [w EXCEPT !.dock = [unhooked EXCEPT !.hasMovedRef = FALSE,
                                                 !.dragState = IdleDragState]]
        ELSE IF state.item.id = NULL THEN w
        ELSE IF plan.pos # NoPos /\ plan.action # "none"
        THEN onReturnAnimationComplete(
                [w EXCEPT !.dock =
                    [ClearMergeStates(unhooked) EXCEPT
                        !.hasMovedRef = FALSE,
                        !.dragState = [d.dragState EXCEPT
                            !.isDragging = FALSE,
                            !.isAnimatingReturn = TRUE,
                            !.currentPosition = plan.pos[1],
                            !.targetPosition = plan.pos,
                            !.targetAction = plan.action,
                            !.targetActionData = plan.data]]],
                GhostMounted(d))
        ELSE onDragEnd(
                [w EXCEPT !.dock =
                    [ClearMergeStates(unhooked) EXCEPT
                        !.hasMovedRef = FALSE,
                        !.dragState = IdleDragState,
                        !.placeholderIndex = NoIndex]],
                "dock", "release")

\* the data operation handleAnimationComplete switches on
DockCommit(w, data, via) ==
    IF data.type = "reorder"
    THEN Call(w, "dock", "onReorder", NoItem, NULL, Ids(data.newItems), NoPos, via)
    ELSE IF data.type = "dropToFolder"
    THEN Call(w, "dock", "onDropToFolder", data.item, data.targetFolder.id, <<>>, NoPos, via)
    ELSE IF data.type = "mergeFolder"
    THEN Call(w, "dock", "onMergeFolder", data.item, data.targetItem.id, <<>>, NoPos, via)
    ELSE IF data.type = "dragToOpenFolder"
    THEN Call(w, "dock", "onDragToOpenFolder", data.item, NULL, <<>>, NoPos, via)
    ELSE w

\* handleAnimationComplete of the dock hook (useDragAndDrop.ts:591-632)
handleAnimationComplete(w, via) ==
    LET state == w.dock.dragRef
        reset == [w EXCEPT !.dock.dragState = IdleDragState,
                           !.dock.placeholderIndex = NoIndex]
    IN  IF ~state.isAnimatingReturn \/ state.targetAction = "none"
              \/ state.item.id = NULL
        THEN w
        ELSE onDragEnd(DockCommit(reset, state.targetActionData, via), "dock", via)

\* the callback handleMouseUp hands to onReturnAnimationComplete
ReturnCallback(w, via) ==
    IF w.dock.dragRef.isAnimatingReturn THEN handleAnimationComplete(w, via) ELSE w

\* handleMouseMove of the folder hook (useDragAndDrop.ts:1375-1425)
FolderHandleMouseMove(w, e) ==
    LET f         == w.folder
        cur       == f.dragRef
        moved     == [w EXCEPT !.folder.dragState.currentPosition = e]
        isOutside == ~InRect(e, FolderRect(Len(FolderItems)), FOLDER_DRAG_BUFFER)
    IN  IF cur.isDragging /\ cur.item.id # NULL
        THEN IF isOutside
             THEN [moved EXCEPT !.folder.dragState.targetAction = "dragOut",
                                !.folder.placeholderIndex = NoIndex]
             ELSE [moved EXCEPT !.folder.dragState.targetAction = "reorder",
                                !.folder.placeholderIndex =
                                   <<calculateFolderDropIndex(e, f.layoutSnapshotRef,
                                        Len(FolderItems), TRUE)>>]
        ELSE w

\* handleExternalMouseMove of the folder hook (useDragAndDrop.ts:1440-1450)
handleExternalMouseMove(w, e) ==
    [w EXCEPT !.folder.placeholderIndex =
        <<calculateFolderDropIndex(e, w.folder.layoutSnapshotRef,
                                   Len(FolderItems), TRUE)>>]

\* handleMouseUp of the folder hook (useDragAndDrop.ts:1462-1490)
FolderHandleMouseUp(w) ==
    LET f   == w.folder
        cur == f.dragRef
        currentPlaceholder == IF f.placeholderRef = NoIndex THEN -1
                              ELSE f.placeholderRef[1]
        w1  == [w EXCEPT !.folder.moveListening = FALSE]
        w2  == IF cur.isDragging /\ cur.item.id # NULL
               THEN IF cur.targetAction = "dragOut"
                    THEN Call(w1, "folder", "onDragOut", cur.item, NULL, <<>>,
                              <<cur.currentPosition>>, "release")
                    ELSE IF currentPlaceholder # -1
                            /\ currentPlaceholder # cur.originalIndex
                    THEN Call(w1, "folder", "onReorder", NoItem, NULL,
                              Ids(reorderList(FolderItems, cur.originalIndex,
                                              currentPlaceholder).result),
                              NoPos, "release")
                    ELSE w1
               ELSE w1
    IN  onDragEnd([w2 EXCEPT !.folder.dragState = IdleDragState,
                             !.folder.placeholderIndex = NoIndex],
                  "folder", "release")

\* cleanupMouseUp, the mouseup listener createMouseDownHandler registers
cleanupMouseUp(w, hook) ==
    LET w1 == [w EXCEPT ![hook].thresholdListenerRef = FALSE,
                        ![hook].press = NoPress,
                        ![hook].hasMovedRef = FALSE]
    IN  IF ~w[hook].press.dragDataSet THEN w1
        ELSE IF hook = "dock" THEN DockHandleMouseUp(w1)
        ELSE FolderHandleMouseUp(w1)

\* the refs a hook copies from its state in effects, after the render
SyncRefs(h) ==
    [h EXCEPT !.dragRef = h.dragState,
              !.placeholderRef = h.placeholderIndex,
              !.hoveredFolderRef = h.hoveredFolderId,
              !.hoveredAppRef = h.hoveredAppId,
              !.mergeTargetRef = h.mergeTargetId,
              !.isPreMergeRef = h.isPreMerge]

\* is the entry with this id a folder, so that App.tsx renders its view
ViewMounted(id) ==
    id # NULL /\ HasId(dockItems, id) /\ FindById(dockItems, id).type = "folder"

\* The render that follows an event and the effects it runs: the dock's
\* external-drag effect (useDragAndDrop.ts:324-341), the mount or unmount of
\* the folder view, the folder's external-drag effect (1430-1456) and its
\* placeholder flag effect (1359-1370), and the ref synchronisation.
Render(w) ==
    LET extOld   == w.externalDragItem
        extNew   == w.draggingItem
        mounted  == ViewMounted(w.openFolderId)
        items    == IF mounted THEN FindById(dockItems, w.openFolderId).items ELSE <<>>
        d1 == IF extNew = extOld THEN w.dock
              ELSE IF extNew.id # NULL
              THEN [w.dock EXCEPT !.externalListening = TRUE]
              ELSE [ClearMergeStates(w.dock) EXCEPT
                        !.placeholderIndex = NoIndex,
                        !.layoutSnapshotRef = <<>>,
                        !.externalListening = FALSE]
        f0 == IF ~mounted THEN HookAtRest
              ELSE IF ~FolderViewOpen THEN HookAtRest
              ELSE w.folder
        f1 == IF mounted /\ extNew.id # NULL
              THEN [f0 EXCEPT !.externalListening = TRUE,
                              !.layoutSnapshotRef =
                                 IF Len(@) = 0 /\ Len(items) > 0
                                 THEN FolderSnapshot(items) ELSE @]
              ELSE [f0 EXCEPT !.externalListening = FALSE]
    IN  [w EXCEPT !.dock = SyncRefs(d1),
                  !.folder = SyncRefs(f1),
                  !.anims = [k \in 1..Len(w.anims) |->
                                [w.anims[k] EXCEPT !.listening =
                                    @ /\ GhostMounted(SyncRefs(d1))]],
                  !.externalDragItem = extNew,
                  !.flag = mounted /\ extNew.id # NULL
                              /\ f1.placeholderIndex # NoIndex]

--------------------------------------------------------------------------
(* The session machine: the DOM events and timers that drive the hooks.    *)

MaxSessDock == 3      \* longest dock a session runs over
MaxAnims    == 1      \* return-animation closures alive at once
MaxMoveCalls == 2     \* callbacks the moves of one gesture invoke
TICK_MS     == 100

SessionDockFull ==
    <<AppItem("a"), FolderItem("F", <<AppItem("c"), AppItem("d")>>),
      AppItem("b"), FolderItem("G", <<AppItem("e"), AppItem("f")>>)>>

SessionDocks ==
    {SubSeq(SessionDockFull, 1, n) : n \in 1..Min(MaxSessDock, Len(SessionDockFull))}

\* where the pointer can be: on and between the centres of the dock row and
\* of the folder row, in the band where the folder view overlaps the dock's
\* buffer, far from both, and exactly MOVE_THRESHOLD right of the press point
Pointers ==
    {Pos(x, DockRowY) : x \in DockPointerXs(Len(dockItems))}
        \cup {Pos(x, FolderRowY) : x \in DockPointerXs(Len(FolderItems))}
        \cup {Pos(DockItemCenterX(0), FolderOrigin.y + DOCK_CELL_SIZE - 4),
              Pos(DockItemCenterX(0), FolderOrigin.y - DOCK_DRAG_BUFFER * 2)}
        \cup (IF mouse.down
              THEN {Pos(mouse.start.x + MOVE_THRESHOLD, mouse.start.y)} ELSE {})

InitSession ==
    /\ dockItems \in SessionDocks
    /\ openFolderId \in {NULL} \cup {dockItems[k].id : k \in {j \in 1..Len(dockItems) :
                                                        dockItems[j].type = "folder"}}
    /\ lastOp = "none"
    /\ pureIn = [fn |-> "none"]
    /\ pureMem = <<>>
    /\ pureOut = <<>>
    /\ isEditMode \in BOOLEAN
    /\ draggingItem = NoItem
    /\ dockHook = HookAtRest
    /\ folderHook = HookAtRest
    /\ folderHasActivePlaceholder = FALSE
    /\ anims = <<>>
    /\ calls = <<>>
    /\ now = 0
    /\ mouse = MouseAtRest

\* An event has run its listeners: React renders, and the world is the
\* state.  Date.now() is read only as a difference from hoverStartTime and
\* only while potentialMergeTarget is set, so the clock's epoch is moved to
\* the start of the dwell, or to now when no dwell is being timed.
Commit(w) ==
    \E r \in {Render(w)} :
        /\ dockHook' = [r.dock EXCEPT !.hoverStartTime = 0]
        /\ now' = now - (IF r.dock.potentialMergeTarget = NULL THEN now
                         ELSE r.dock.hoverStartTime)
        /\ folderHook' = r.folder
        /\ draggingItem' = r.draggingItem
        /\ openFolderId' = r.openFolderId
        /\ folderHasActivePlaceholder' = r.flag
        /\ anims' = SelectSeq(r.anims, LAMBDA a : a.timer \/ a.listening)
        /\ calls' = r.calls
        /\ UNCHANGED <<pureVars, dockItems, lastOp>>

\* Editor onClick={() => setIsEditMode(!isEditMode)}
ToggleEditMode ==
    /\ ~mouse.down
    /\ isEditMode' = ~isEditMode
    /\ Commit(World)
    /\ UNCHANGED mouse

\* FolderView onClose={() => setOpenFolderId(null)}
CloseFolder ==
    /\ ~mouse.down
    /\ FolderViewOpen
    /\ Commit([World EXCEPT !.openFolderId = NULL])
    /\ UNCHANGED <<mouse, isEditMode>>

Press(hook, item, index, e) ==
    /\ ~mouse.down
    /\ Len(anims) < MaxAnims
    /\ mouse' = [down |-> TRUE, start |-> e, moved |-> FALSE, exceeded |-> FALSE,
                 editAtDown |-> isEditMode, released |-> FALSE, upRan |-> FALSE,
                 late |-> FALSE, pos |-> Pos(0, 0), tracked |-> FALSE,
                 away |-> FALSE]
    /\ Commit(createMouseDownHandler(
                 [World EXCEPT !.calls = IF isEditMode THEN <<>> ELSE @],
                 hook, item, index, e))
    /\ UNCHANGED isEditMode

\* handleMouseDown of the dock hook: a press on the centre of dock item i
DockMouseDown ==
    \E i \in 0..(Len(dockItems) - 1) :
        Press("dock", dockItems[i + 1], i, Pos(DockItemCenterX(i), DockRowY))

\* handleMouseDown of the folder hook: a press on the centre of folder item j
FolderMouseDown ==
    /\ FolderViewOpen
    /\ \E j \in 0..(Len(FolderItems) - 1) :
          Press("folder", FolderItems[j + 1], j,
                Pos(FolderItemLeft(j) + HALF_ITEM, FolderItemTop(j) + HALF_ITEM))

\* a mousemove on window: the listeners run in the order they were added
MouseMove ==
    \E e \in Pointers :
    \E w1 \in {IF dockHook.thresholdListenerRef
               THEN moveThresholdCheck(World, "dock", e) ELSE World} :
    \E w2 \in {IF dockHook.moveListening \/ dockHook.externalListening
               THEN DockHandleMouseMove(w1, e) ELSE w1} :
    \E w3 \in {IF folderHook.thresholdListenerRef
               THEN moveThresholdCheck(w2, "folder", e) ELSE w2} :
    \E w4 \in {IF folderHook.moveListening
               THEN FolderHandleMouseMove(w3, e) ELSE w3} :
    \E w5 \in {IF folderHook.externalListening
               THEN handleExternalMouseMove(w4, e) ELSE w4} :
        /\ \/ mouse.down
           \/ dockHook.thresholdListenerRef \/ dockHook.moveListening
           \/ dockHook.externalListening
           \/ folderHook.thresholdListenerRef \/ folderHook.moveListening
           \/ folderHook.externalListening
        /\ Len(w5.calls) <= MaxMoveCalls
        /\ mouse' = [mouse EXCEPT
                        !.pos = IF folderHook.press.upListening THEN e ELSE @,
                        !.tracked = folderHook.moveListening,
                        !.late = (dockHook.moveListening \/ dockHook.externalListening)
                                    /\ LateOnFolder(w1, e),
                        !.away = (dockHook.moveListening \/ dockHook.externalListening)
                                    /\ DockMoveAway(w1, e),
                        !.moved = @ \/ mouse.down,
                        !.exceeded = @ \/ (mouse.down
                            /\ FartherThan(e, mouse.start, MOVE_THRESHOLD))]
        /\ Commit(w5)
        /\ UNCHANGED isEditMode

\* a mouseup on window: cleanupMouseUp of the hook that armed the press
MouseUp ==
    \E w1 \in {IF dockHook.press.upListening
               THEN cleanupMouseUp(World, "dock") ELSE World} :
    \E w2 \in {IF folderHook.press.upListening
               THEN cleanupMouseUp(w1, "folder") ELSE w1} :
        /\ mouse.down
        /\ mouse' = [mouse EXCEPT
                        !.down = FALSE, !.start = Pos(0, 0), !.released = TRUE,
                        !.late = FALSE, !.pos = Pos(0, 0), !.tracked = FALSE,
                        !.away = FALSE,
                        !.upRan =
                           \/ dockHook.press.upListening /\ dockHook.press.dragDataSet
                           \/ folderHook.press.upListening
                                 /\ folderHook.press.dragDataSet]
        /\ Commit(w2)
        /\ UNCHANGED isEditMode

\* handleComplete of closure k: completed guards it, the listener goes, the
\* callback runs
handleComplete(w, k, via) ==
    IF w.anims[k].completed THEN w
    ELSE ReturnCallback([w EXCEPT !.anims[k].completed = TRUE,
                                  !.anims[k].listening = FALSE], via)

RECURSIVE RunTransitionListeners(_, _, _)
\* onTransitionEnd of every closure still listening on the ghost, from k on
RunTransitionListeners(w, k, propertyName) ==
    IF k > Len(w.anims) THEN w
    ELSE RunTransitionListeners(
            IF anims[k].listening /\ propertyName \in {"left", "top"}
            THEN handleComplete(w, k, "transitionend") ELSE w,
            k + 1, propertyName)

\* a transitionend of the ghost: the listeners added on the element run,
\* then the event reaches DragPreview's handleTransitionEnd, whose
\* onAnimationComplete is the hook's handleAnimationComplete
TransitionEnd ==
    \E propertyName \in {"left", "top", "transform"} :
    \E w1 \in {RunTransitionListeners(World, 1, propertyName)} :
    \E w2 \in {IF dockHook.dragRef.isAnimatingReturn
                     /\ propertyName \in {"left", "top"}
               THEN handleAnimationComplete(w1, "preview") ELSE w1} :
        /\ GhostMounted(dockHook)
        /\ dockHook.dragRef.isAnimatingReturn
        /\ Commit(w2)
        /\ UNCHANGED <<mouse, isEditMode>>

\* the fallback timer of closure k fires
FallbackTimeout ==
    \E k \in 1..Len(anims) :
    \E w0 \in {[World EXCEPT !.anims[k].timer = FALSE]} :
    \E w1 \in {IF anims[k].element THEN handleComplete(w0, k, "timeout")
               ELSE ReturnCallback(w0, "timeout")} :
        /\ anims[k].timer
        /\ Commit(w1)
        /\ UNCHANGED <<mouse, isEditMode>>

\* time passes while the dock hook is timing a dwell
Tick ==
    /\ dockHook.potentialMergeTarget # NULL
    /\ now - dockHook.hoverStartTime <= HOVER_OPEN_DELAY
    /\ now' = now + TICK_MS
    /\ UNCHANGED <<pureVars, appVars, isEditMode, draggingItem, dockHook, folderHook,
                   folderHasActivePlaceholder, anims, calls, mouse>>

Next ==
    \/ ToggleEditMode
    \/ CloseFolder
    \/ DockMouseDown
    \/ FolderMouseDown
    \/ MouseMove
    \/ MouseUp
    \/ TransitionEnd
    \/ FallbackTimeout
    \/ Tick

Spec == InitSession /\ [][Next]_vars

\* timers the page has set do fire
SpecLive == Spec /\ WF_vars(FallbackTimeout)

--------------------------------------------------------------------------
(* Properties of the drag sessions *)

CommitCallbacks ==
    {"onReorder", "onDropToFolder", "onMergeFolder", "onDragToOpenFolder", "onDragOut"}

Commits == {k \in 1..Len(calls) : calls[k].cb \in CommitCallbacks}

\* C1: in the dock and in the folder, the session state has been reset to
\* idle before the pending commit callback is invoked: no commit callback is
\* invoked while the hook's drag state is still that of a drag.
C1_ResetBeforeCommit ==
    \A k \in Commits : calls[k].phase = "idle"

\* C2: in the dock and in the folder, a commit callback is invoked only after
\* the return animation has finished: never from the release itself, and
\* while a session is animating its return no commit has been invoked for it.
C2_CommitAfterAnimation ==
    /\ \A k \in Commits : calls[k].via # "release"
    /\ \A h \in {dockHook, folderHook} :
          Phase(h.dragRef) = "animatingReturn" => Commits = {}

\* C3: whatever the interleaving of the transitionend events for left and
\* top, the fallback timeout and the preview's onAnimationComplete, each
\* gesture invokes its commit callback at most once.
C3_CommitAtMostOnce ==
    Cardinality(Commits) <= 1

\* a later press that crossed the threshold has put its own session in place
TakenOver == Phase(dockHook.dragRef) \in {"pressed", "dragging"}

Completions == {"transitionend", "timeout", "preview"}

\* C5: a press that is released without the pointer ever having been more
\* than the threshold away from the press point starts no session: neither
\* hook records a drag, the gesture invokes neither onDragStart nor a commit
\* callback nor onDragEnd, no item becomes the dragging item, and the release
\* does not run the release handler; when no return animation of an earlier
\* gesture is pending, the drag state of both hooks stays idle.
C5_ClickStartsNothing ==
    /\ []((mouse.editAtDown /\ ~mouse.exceeded /\ (mouse.down \/ mouse.released))
          => /\ \A h \in {dockHook, folderHook} :
                   /\ Phase(h.dragState) \notin {"pressed", "dragging"}
                   /\ ~h.press.dragDataSet
                   /\ ~h.moveListening
             /\ \A k \in 1..Len(calls) :
                   \/ calls[k].via \in Completions
                   \/ calls[k].cb = "onHoverOpenFolder"
             /\ ~mouse.upRan
             /\ (anims = <<>> /\ \A k \in 1..Len(calls) : calls[k].via \notin Completions)
                   => /\ dockHook.dragState = IdleDragState
                      /\ folderHook.dragState = IdleDragState)
    /\ [][(mouse.down /\ mouse.editAtDown /\ ~mouse'.exceeded)
          => draggingItem' \in {draggingItem, NoItem}]_vars

C5_Witness ==
    /\ mouse.released
    /\ mouse.editAtDown
    /\ mouse.moved
    /\ ~mouse.exceeded

\* C6: with edit mode inactive a pointer-down on an item arms nothing: no
\* press is captured, no threshold or move listener is installed and no
\* session starts, however the pointer moves afterwards.
C6_NoEditNoArm ==
    /\ []((mouse.down /\ ~mouse.editAtDown)
          => \A h \in {dockHook, folderHook} :
                /\ h.press = NoPress
                /\ ~h.thresholdListenerRef
                /\ ~h.moveListening
                /\ Phase(h.dragState) \notin {"pressed", "dragging"})
    /\ [][(mouse.down /\ ~mouse.editAtDown)
          => \A k \in (Len(calls) + 1)..Len(calls') :
                \/ calls'[k].via \in Completions
                \/ calls'[k].cb = "onHoverOpenFolder"]_vars

C6_Witness ==
    /\ mouse.down
    /\ ~mouse.editAtDown
    /\ mouse.exceeded

\* the list L with the item at index s taken out and put back at index q
MovedTo(L, s, q) ==
    LET rest == SubSeq(L, 1, s) \o SubSeq(L, s + 2, Len(L))
    IN  SubSeq(rest, 1, q) \o <<L[s + 1]>> \o SubSeq(rest, q + 1, Len(rest))

\* C7: a dock release that resolves to reorder with source index s and
\* placeholder p yields the list with L[s] removed and inserted at p - 1 when
\* p > s and at p otherwise; [A, B, C, D] with s = 0, p = 3 gives [B, C, A, D].
C7_DockReorderList ==
    /\ Ids(DockReorderItems(
              <<AppItem("A"), AppItem("B"), AppItem("C"), AppItem("D")>>, 0, 3))
          = <<"B", "C", "A", "D">>
    /\ [][(dockHook.dragState.targetAction # "reorder"
             /\ dockHook'.dragState.targetAction = "reorder")
          => LET s == dockHook.dragRef.originalIndex
                 p == dockHook.placeholderRef[1]
                 new == dockHook'.dragState.targetActionData.newItems
                 id == dockItems[s + 1].id
             IN  /\ p \in 0..Len(dockItems)
                 /\ new = MovedTo(dockItems, s, IF p > s THEN p - 1 ELSE p)
                 /\ SameMultiset(new, dockItems)
                 /\ FilterOutId(new, id) = FilterOutId(dockItems, id)]_vars
    /\ [][\A k \in (Len(calls) + 1)..Len(calls') :
             (calls'[k].cb = "onReorder" /\ calls'[k].hook = "dock")
             => calls'[k].list = Ids(dockHook.dragRef.targetActionData.newItems)]_vars

C7_Witness ==
    /\ dockHook.dragState.targetAction = "reorder"
    /\ dockHook.dragState.targetActionData.newItems # dockItems
    /\ dockHook.placeholderIndex # NoIndex
    /\ dockHook.placeholderIndex[1] > dockHook.dragState.originalIndex + 1

--------------------------------------------------------------------------
\* C8: for every list L and indices src # dst inside L, reorderList(L, src, dst)
\* returns a list with the same multiset of items as L, with the moved item
\* L[src] at position dst and the other items in their relative order, and
\* the input list is left unmodified.
C8_ReorderListMovesItem ==
    (pureIn.fn = "reorderList" /\ pureOut # <<>>
        /\ pureIn.startIndex # pureIn.endIndex /\ pureIn.endIndex < Len(pureIn.list))
    => LET L == pureIn.list
           R == pureOut[1]
       IN  /\ SameMultiset(L, R)
           /\ R[pureIn.endIndex + 1] = L[pureIn.startIndex + 1]
           /\ SpliceRemove(R, pureIn.endIndex) = SpliceRemove(L, pureIn.startIndex)
           /\ pureMem = L

C8_Witness ==
    /\ pureIn.fn = "reorderList" /\ pureOut # <<>>
    /\ pureIn.list = <<"a", "b", "c", "a">>
    /\ pureIn.startIndex = 0 /\ pureIn.endIndex = 2
    /\ pureOut[1] = <<"b", "c", "a", "a">>

\* C9: auto-dissolution step.  A folder F with exactly one item is replaced by
\* that item at F's index and no entry with id F remains; with zero items F is
\* removed; with two or more items, or F absent or not a folder, the list is
\* returned unchanged.  All other entries and their order are untouched.
C9_DissolveStep ==
    (pureIn.fn = "dissolve" /\ pureOut # <<>>)
    => LET L == pureIn.items
           F == pureIn.folderId
           R == pureOut[1]
           k == FindIndexById(L, F)
       IN  IF k # -1 /\ L[k + 1].type = "folder" /\ Len(L[k + 1].items) = 1
           THEN /\ Len(R) = Len(L)
                /\ R[k + 1] = L[k + 1].items[1]
                /\ FindIndexById(R, F) = -1
                /\ \A j \in 1..Len(L) : j # k + 1 => R[j] = L[j]
           ELSE IF k # -1 /\ L[k + 1].type = "folder" /\ Len(L[k + 1].items) = 0
           THEN /\ R = SpliceRemove(L, k)
                /\ FindIndexById(R, F) = -1
           ELSE R = L

C9_Witness ==
    /\ pureIn.fn = "dissolve" /\ pureOut # <<>>
    /\ pureIn.folderId = "F"
    /\ pureIn.items = <<AppItem("a"), FolderItem("F", <<AppItem("c")>>), AppItem("b")>>
    /\ pureOut[1] = <<AppItem("a"), AppItem("c"), AppItem("b")>>

\* C10: starting from a dock in which every folder has at least two items,
\* after any sequence of coordinator operations no folder with zero or one
\* items exists in the dock list.
C10_NoSmallFolder == FoldersOk(dockItems)

C10_Witness ==
    /\ lastOp = "dragFromFolder"
    /\ \E k \in 1..Len(dockItems) : dockItems[k].type = "folder"
    /\ ~HasId(dockItems, "F")
    /\ openFolderId = NULL

\* every entry of every folder's items is an app
NoNesting(items) ==
    \A k \in 1..Len(items) :
        \A j \in 1..Len(items[k].items) : items[k].items[j].type = "app"

\* the folders of a dock list
FoldersOf(items) == {items[k] : k \in {j \in 1..Len(items) : items[j].type = "folder"}}

\* C11: from a dock without nested folders no coordinator operation builds
\* one: every entry of every folder's items is an app; a folder dropped onto
\* a folder leaves the dock and its items are appended to the target's; and
\* dragging into the open folder never takes a folder off the dock.
C11_NoNestedFolders ==
    /\ [](NoNesting(dockItems))
    /\ [][lastOp' = "dropOnFolder"
          => \A g \in FoldersOf(dockItems) :
                HasId(dockItems', g.id)
                \/ \E t \in FoldersOf(dockItems) :
                      /\ t.id # g.id
                      /\ HasId(dockItems', t.id)
                      /\ FindById(dockItems', t.id).items = t.items \o g.items
                      /\ Len(dockItems') = Len(dockItems) - 1]_vars
    /\ [][lastOp' = "dragToFolder"
          => \A g \in FoldersOf(dockItems) : HasId(dockItems', g.id)]_vars

\* a folder has been dropped onto the other one, which now holds every app
C11_Witness ==
    /\ lastOp = "dropOnFolder"
    /\ Cardinality(FoldersOf(dockItems)) = 1
    /\ \E t \in FoldersOf(dockItems) : Len(t.items) = MaxApps
    /\ Len(dockItems) = 1

\* the calls a step adds to the log
NewCalls == {k \in 1..Len(calls') : k > Len(calls)}

\* the dwell the dock hook measures on a pointer-move: Date.now() less the
\* time at which the current candidate was first found
Dwell == now - dockHook.hoverStartTime

\* C12: dwell transitions are time-ordered.  A candidate is tracked only
\* while an item is being dragged; pre-merge becomes active only on a move
\* whose dwell on the tracked candidate is more than PRE_MERGE_DELAY;
\* onHoverOpenFolder is invoked only on a move whose dwell is more than
\* HOVER_OPEN_DELAY; and a move that finds a candidate other than the tracked
\* one restarts the dwell at zero and clears pre-merge, the merge target and
\* the hovered ids.
C12_DwellTimeOrdered ==
    /\ [](dockHook.potentialMergeTarget # NULL
            => (dockHook.dragState.isDragging \/ draggingItem # NoItem))
    /\ [][(~dockHook.isPreMerge /\ dockHook'.isPreMerge)
          => /\ dockHook.potentialMergeTarget # NULL
             /\ dockHook'.mergeTargetId = dockHook.potentialMergeTarget
             /\ Dwell > PRE_MERGE_DELAY]_vars
    /\ [][\A k \in NewCalls :
             calls'[k].cb = "onHoverOpenFolder"
             => /\ calls'[k].target = dockHook.potentialMergeTarget
                /\ Dwell > HOVER_OPEN_DELAY]_vars
    /\ [][(dockHook'.potentialMergeTarget # NULL
             /\ dockHook'.potentialMergeTarget # dockHook.potentialMergeTarget)
          => /\ now' - dockHook'.hoverStartTime = 0
             /\ ~dockHook'.isPreMerge
             /\ dockHook'.mergeTargetId = NULL
             /\ dockHook'.hoveredFolderId = NULL
             /\ dockHook'.hoveredAppId = NULL]_vars

\* pre-merge is active on a candidate the pointer has dwelt on long enough
C12_Witness ==
    /\ dockHook.isPreMerge
    /\ dockHook.mergeTargetId # NULL
    /\ dockHook.potentialMergeTarget = dockHook.mergeTargetId
    /\ Dwell > PRE_MERGE_DELAY

\* C13: while the same folder candidate persists, every pointer-move whose
\* dwell exceeds HOVER_OPEN_DELAY invokes onHoverOpenFolder with the dragged
\* item and that folder and leaves the placeholder as it was, also when an
\* earlier move of the same dwell has already entered pre-merge.
C13_LateDwellOpensFolder ==
    [][(mouse'.late /\ ~mouse.late)
       => /\ \E k \in NewCalls :
                /\ calls'[k].cb = "onHoverOpenFolder"
                /\ calls'[k].target = dockHook.potentialMergeTarget
          /\ dockHook'.placeholderIndex = dockHook.placeholderIndex]_vars

\* the step is the release of a drag the dock hook is running
DockRelease ==
    /\ mouse.down /\ ~mouse'.down
    /\ dockHook.press.upListening /\ dockHook.press.dragDataSet
    /\ Phase(dockHook.dragRef) = "dragging"

\* the origin of the rect the dock's snapshot holds for the item id
SnapshotOrigin(id) ==
    LET snap == dockHook.layoutSnapshotRef
        k    == FindIndexById(snap, id)
    IN  Pos(snap[k + 1].rect.left, snap[k + 1].rect.top)

\* C14: releasing an app X that is in pre-merge on a candidate Y resolves to
\* the merge action Y's type determines and not to anything else: drop into
\* the folder Y, or merge with the app Y, with the ghost sent to the origin
\* of Y's rect in the snapshot.
C14_PreMergeReleaseMerges ==
    [][(/\ DockRelease
        /\ dockHook.dragRef.item.type = "app"
        /\ dockHook.isPreMergeRef
        /\ dockHook.mergeTargetRef # NULL
        /\ dockHook.potentialMergeTarget = dockHook.mergeTargetRef)
       => LET X  == dockHook.dragRef.item
              Y  == FindById(dockItems, dockHook.mergeTargetRef)
              ds == dockHook'.dragState
          IN  /\ Phase(ds) = "animatingReturn"
              /\ ds.targetPosition = <<SnapshotOrigin(Y.id)>>
              /\ IF Y.type = "folder"
                 THEN /\ ds.targetAction = "dropToFolder"
                      /\ ds.targetActionData.item = X
                      /\ ds.targetActionData.targetFolder = Y
                 ELSE /\ ds.targetAction = "mergeFolder"
                      /\ ds.targetActionData.item = X
                      /\ ds.targetActionData.targetItem = Y]_vars

\* C15: a dragged folder never resolves to the merge-into-app action: no
\* release of a folder stores mergeFolder as its pending action and
\* onMergeFolder is never invoked with a folder as the dragged item.
C15_FolderNeverMergesIntoApp ==
    /\ dockHook.dragState.targetAction = "mergeFolder"
          => dockHook.dragState.targetActionData.item.type # "folder"
    /\ \A k \in 1..Len(calls) :
          calls[k].cb = "onMergeFolder" => calls[k].item \notin FolderIds

--------------------------------------------------------------------------
(* main.tsx detectDragRegion: the region a pointer position belongs to.   *)
(* dockRect is <<>> for null and <<rect>> otherwise.                       *)

DETECT_REGION_BUFFER == 100

detectDragRegion_dockFirst(e, dockRect, activeItemIsFolder, buffer) ==
    IF dockRect # <<>> /\ InRect(e, dockRect[1], buffer) THEN "dock"
    ELSE IF ~activeItemIsFolder /\ isMouseOverFolderView(e) THEN "folder"
    ELSE "outside"

detectDragRegion(e, dockRect, activeItemIsFolder, buffer) ==
    IF ~activeItemIsFolder /\ isMouseOverFolderView(e) THEN "folder"
    ELSE IF dockRect # <<>> /\ InRect(e, dockRect[1], buffer) THEN "dock"
    ELSE "outside"

RegionBuffers == {DOCK_DRAG_BUFFER, DETECT_REGION_BUFFER}

RegionRects == {<<>>, <<DockRect(Len(dockItems))>>}

\* the session's pointer positions, the corners of the dock's buffered
\* bounds and the points one pixel beyond them
RegionPoints ==
    Pointers
        \cup {Pos(x, y) :
                x \in UNION {{DockRect(Len(dockItems)).left - b - 1,
                              DockRect(Len(dockItems)).left - b,
                              DockRect(Len(dockItems)).right + b,
                              DockRect(Len(dockItems)).right + b + 1}
                                : b \in RegionBuffers},
                y \in UNION {{DockRect(Len(dockItems)).top - b - 1,
                              DockRect(Len(dockItems)).top - b,
                              DockRect(Len(dockItems)).bottom + b,
                              DockRect(Len(dockItems)).bottom + b + 1}
                                : b \in RegionBuffers}}

\* the pointer is on or inside the border of the open folder view
InsideOpenFolderView(e) ==
    /\ openFolderId # NULL
    /\ HasId(dockItems, openFolderId)
    /\ FolderOrigin.x - DOCK_ITEM_GAP <= e.x
    /\ e.x <= FolderOrigin.x + FOLDER_COLUMNS * DOCK_CELL_SIZE
    /\ FolderRect(Len(FolderItems)).top <= e.y
    /\ e.y <= FolderRect(Len(FolderItems)).bottom

\* the pointer is on or inside the dock's bounds grown by b on every side
InsideBufferedDock(e, b) ==
    LET r == DockRect(Len(dockItems))
    IN  ~(e.x < r.left - b \/ e.x > r.right + b
            \/ e.y < r.top - b \/ e.y > r.bottom + b)

\* C16: detectDragRegion answers "folder" exactly when the dragged item is
\* not a folder and the pointer is inside the open folder view, also where
\* the dock's buffered bounds cover the pointer; otherwise "dock" when a
\* dock rect is given and the pointer is within it grown by the buffer,
\* edges included; "outside" in every other case.  For a dragged folder the
\* answer is never "folder", and no release of a dragged folder resolves
\* to dragToOpenFolder.
C16_RegionClassification ==
    /\ \A e \in RegionPoints, rect \in RegionRects,
          f \in BOOLEAN, b \in RegionBuffers :
          LET r == detectDragRegion(e, rect, f, b)
          IN  /\ (r = "folder") <=> (~f /\ InsideOpenFolderView(e))
              /\ (r = "dock") <=>
                    (r # "folder" /\ rect # <<>> /\ InsideBufferedDock(e, b))
              /\ (r = "outside") <=> (r \notin {"folder", "dock"})
              /\ f => r # "folder"
    /\ dockHook.dragState.targetAction = "dragToOpenFolder"
          => dockHook.dragState.targetActionData.item.type # "folder"
    /\ \A k \in 1..Len(calls) :
          calls[k].cb = "onDragToOpenFolder" => calls[k].item \notin FolderIds

\* a dragged folder released while the open folder view holds a
\* placeholder for it, with a pointer position that is inside the folder
\* view and inside the dock's buffered bounds at once
C16_Witness ==
    /\ FolderViewOpen
    /\ folderHasActivePlaceholder
    /\ dockHook.dragState.isAnimatingReturn
    /\ dockHook.dragState.item.type = "folder"
    /\ dockHook.dragState.targetAction # "dragToOpenFolder"
    /\ \E e \in Pointers :
          /\ InsideOpenFolderView(e)
          /\ InsideBufferedDock(e, DETECT_REGION_BUFFER)
          /\ detectDragRegion(e, <<DockRect(Len(dockItems))>>, TRUE,
                              DETECT_REGION_BUFFER) = "dock"
          /\ detectDragRegion(e, <<DockRect(Len(dockItems))>>, FALSE,
                              DETECT_REGION_BUFFER) = "folder"

\* C17: while a dock item is dragged with a folder view open, the dock's
\* placeholderIndex or pre-merge state and the folder's placeholderIndex for
\* the external item are never set at the same time.
C17_SingleAuthority ==
    (FolderViewOpen /\ dockHook.dragState.isDragging /\ draggingItem # NoItem)
        => ~(/\ dockHook.placeholderIndex # NoIndex \/ dockHook.isPreMerge
             /\ folderHook.placeholderIndex # NoIndex)

\* C18: at a dock release of a non-folder item the shared folder-placeholder
\* flag alone decides between the dock and the open folder: with the flag
\* set and the folder view present the release resolves to dragToOpenFolder
\* whatever the pre-merge state and the dock placeholder are; with the flag
\* clear it never resolves to dragToOpenFolder.
C18_FlagDecidesRelease ==
    [][(DockRelease /\ dockHook.dragRef.item.type # "folder")
          => IF folderHasActivePlaceholder /\ FolderViewOpen
             THEN /\ dockHook'.dragState.isAnimatingReturn
                  /\ dockHook'.dragState.targetAction = "dragToOpenFolder"
                  /\ dockHook'.dragState.targetActionData.item
                        = dockHook.dragRef.item
             ELSE dockHook'.dragState.targetAction # "dragToOpenFolder"]_vars

\* released in pre-merge with the flag set: resolved to the open folder
C18_Witness ==
    /\ dockHook.dragState.isAnimatingReturn
    /\ dockHook.dragState.targetAction = "dragToOpenFolder"
    /\ dockHook.dragState.item.type = "app"
    /\ dockHook.isPreMergeRef
    /\ folderHasActivePlaceholder

\* C19: a release of a dragging dock session for which no action resolves
\* (folder-placeholder flag clear, not in pre-merge, placeholderIndex null) is
\* an immediate cancel: the session is idle in the next state without an
\* animated return, the placeholder and all hover and merge state are
\* cleared, no commit callback is invoked, the item list is unchanged and
\* onDragEnd is invoked exactly once.
C19_UnresolvedReleaseCancels ==
    [][(/\ DockRelease
        /\ ~folderHasActivePlaceholder
        /\ ~dockHook.isPreMerge
        /\ dockHook.placeholderIndex = NoIndex)
          => /\ Phase(dockHook'.dragState) = "idle"
             /\ anims' = anims
             /\ dockHook'.placeholderIndex = NoIndex
             /\ dockHook'.hoveredFolderId = NULL
             /\ dockHook'.hoveredAppId = NULL
             /\ dockHook'.mergeTargetId = NULL
             /\ ~dockHook'.isPreMerge
             /\ dockHook'.potentialMergeTarget = NULL
             /\ \A k \in NewCalls : calls'[k].cb \notin CommitCallbacks
             /\ Cardinality({k \in NewCalls : calls'[k].cb = "onDragEnd"}) = 1
             /\ dockItems' = dockItems
             /\ draggingItem' = NoItem]_vars

\* a drag released outside the dock with nothing resolved: idle at once,
\* the end of the drag reported from the release itself
C19_Witness ==
    /\ Len(calls) > 0
    /\ calls[Len(calls)].cb = "onDragEnd"
    /\ calls[Len(calls)].hook = "dock"
    /\ calls[Len(calls)].via = "release"
    /\ Phase(dockHook.dragState) = "idle"
    /\ mouse.released
    /\ anims = <<>>

\* the step is the release of a drag the folder hook is running, after at
\* least one pointer-move
FolderRelease ==
    /\ mouse.down /\ ~mouse'.down /\ mouse.moved
    /\ folderHook.press.upListening /\ folderHook.press.dragDataSet
    /\ Phase(folderHook.dragRef) = "dragging"

\* the last pointer-move was beyond the folder's bounds grown by the buffer
LastMoveOutside ==
    LET r == FolderRect(Len(FolderItems))
    IN  \/ mouse.pos.x < r.left - FOLDER_DRAG_BUFFER
        \/ mouse.pos.x > r.right + FOLDER_DRAG_BUFFER
        \/ mouse.pos.y < r.top - FOLDER_DRAG_BUFFER
        \/ mouse.pos.y > r.bottom + FOLDER_DRAG_BUFFER

\* C20: in the folder, when the last pointer-move before the release was
\* outside the folder's buffered boundary, the release invokes onDragOut
\* exactly once, with the dragged item and the pointer's position at the
\* release, and does not invoke onReorder; when the last pointer-move was
\* inside the boundary, onDragOut is not invoked.
C20_DragOutOnRelease ==
    [][FolderRelease
          => IF LastMoveOutside
             THEN /\ Cardinality({k \in NewCalls :
                                     calls'[k].cb = "onDragOut"}) = 1
                  /\ \A k \in NewCalls :
                        /\ calls'[k].cb = "onDragOut"
                              => /\ calls'[k].item = folderHook.dragRef.item.id
                                 /\ calls'[k].pos = <<mouse.pos>>
                        /\ calls'[k].cb # "onReorder"
             ELSE \A k \in NewCalls : calls'[k].cb # "onDragOut"]_vars

\* What the code has in place of C20: it holds for a last pointer-move that the
\* folder hook's handleMouseMove received, that is for every move after the
\* one that crossed the movement threshold; a release that follows the
\* threshold-crossing move directly does not invoke onDragOut, wherever that
\* move ended.
C20_DragOutAfterTrackedMove ==
    [][FolderRelease
          => IF mouse.tracked /\ LastMoveOutside
             THEN /\ Cardinality({k \in NewCalls :
                                     calls'[k].cb = "onDragOut"}) = 1
                  /\ \A k \in NewCalls :
                        /\ calls'[k].cb = "onDragOut"
                              => /\ calls'[k].item = folderHook.dragRef.item.id
                                 /\ calls'[k].pos = <<mouse.pos>>
                        /\ calls'[k].cb # "onReorder"
             ELSE \A k \in NewCalls : calls'[k].cb # "onDragOut"]_vars

\* a folder item dragged beyond the buffered boundary and released there:
\* the last two calls are onDragOut with a position outside and onDragEnd
C20_Witness ==
    /\ mouse.released
    /\ Len(calls) >= 2
    /\ calls[Len(calls)].cb = "onDragEnd"
    /\ calls[Len(calls) - 1].cb = "onDragOut"
    /\ calls[Len(calls) - 1].hook = "folder"
    /\ calls[Len(calls) - 1].via = "release"
    /\ calls[Len(calls) - 1].pos # NoPos
    /\ ~InRect(calls[Len(calls) - 1].pos[1], FolderRect(Len(FolderItems)),
               FOLDER_DRAG_BUFFER)

--------------------------------------------------------------------------
(* The index and displacement functions of the two layouts.               *)

OnCentre(i) ==
    /\ pureIn.fn = "calculatePlaceholder"
    /\ pureOut # <<>>
    /\ i < pureIn.n
    /\ pureIn.mouseX = RowSnapshot(pureIn.n)[i + 1].centerX

\* C22: when the pointer x is exactly the centre of snapshot item i, the
\* linear insertion index is i: the item is inserted before item i.
C22_TieInsertsBefore ==
    \A i \in 0..(MaxSnap - 1) : OnCentre(i) => pureOut[1] = i

\* C22 as the code has it: the comparison is mouseX < centerX, so a pointer
\* exactly on the centre of item i is past item i; the index is i + 1 when
\* the snapshot has a later item and the item count otherwise, an insertion
\* after item i.
C22_TieInsertsAfter ==
    \A i \in 0..(MaxSnap - 1) :
        OnCentre(i) => pureOut[1] = IF i + 1 < pureIn.n THEN i + 1
                                    ELSE pureIn.itemCount

\* the pointer on the centre of the second of three items: index 2
C22_Witness ==
    /\ OnCentre(1)
    /\ pureIn.n = MaxSnap
    /\ pureIn.itemCount = pureIn.n
    /\ pureOut = <<2>>

\* the squared distance from the call's pointer to the centre of item k
GridDist(k) ==
    (pureIn.mouse.x - GridSnapshot(pureIn.n)[k].centerX)
        * (pureIn.mouse.x - GridSnapshot(pureIn.n)[k].centerX)
    + (pureIn.mouse.y - GridSnapshot(pureIn.n)[k].centerY)
        * (pureIn.mouse.y - GridSnapshot(pureIn.n)[k].centerY)

\* item k is the first item of the snapshot at minimum distance
FirstNearest(k) ==
    /\ \A j \in 1..pureIn.n : GridDist(k) <= GridDist(j)
    /\ \A j \in 1..(k - 1) : GridDist(j) # GridDist(k)

\* C23: the grid insertion index is 0 for an empty snapshot; it is the item
\* count if a container rect is given and the pointer is below the bottom
\* edge of the last snapshot item; otherwise, with k the first snapshot item
\* at minimum Euclidean distance from the pointer, it is k.index when
\* pointerX < k.centerX + 10 and k.index + 1 otherwise.
C23_GridInsertIndex ==
    (pureIn.fn = "calculateFolderDropIndex" /\ pureOut # <<>>)
        => IF pureIn.n = 0 THEN pureOut[1] = 0
           ELSE IF /\ pureIn.containerRect
                   /\ pureIn.mouse.y > GridSnapshot(pureIn.n)[pureIn.n].rect.bottom
           THEN pureOut[1] = pureIn.itemCount
           ELSE \E k \in 1..pureIn.n :
                   /\ FirstNearest(k)
                   /\ pureOut[1] =
                        IF pureIn.mouse.x < GridSnapshot(pureIn.n)[k].centerX + 10
                        THEN GridSnapshot(pureIn.n)[k].index
                        ELSE GridSnapshot(pureIn.n)[k].index + 1

\* a pointer at equal distance from an item of the first row and the item
\* below it, ten pixels right of their centre: the first of the two is
\* taken and the index is the one after it
C23_Witness ==
    /\ pureIn.fn = "calculateFolderDropIndex"
    /\ pureIn.n = MaxGrid
    /\ pureOut = <<1>>
    /\ FirstNearest(1)
    /\ GridDist(1) = GridDist(FOLDER_COLUMNS + 1)
    /\ pureIn.mouse.x = GridSnapshot(pureIn.n)[1].centerX + 10

--------------------------------------------------------------------------
(* The dock hook over an empty dock: the items prop is the empty list, the *)
(* snapshot is empty and the dragged item comes from outside the dock.     *)

\* the dock hook's state after its handleMouseMove has run for the moves of
\* the call, rendered in between
EmptyDockMoves(call) ==
    LET w0 == Render([World EXCEPT !.draggingItem = call.item])
        w1 == Render(DockHandleMouseMove(w0, call.first))
    IN  DockHandleMouseMove(w1, call.mouse).dock

ApplyEmptyDockMove ==
    /\ pureIn.fn = "emptyDockMove"
    /\ pureOut = <<>>
    /\ Len(dockItems) = 0
    /\ pureOut' = <<EmptyDockMoves(pureIn).placeholderIndex>>
    /\ UNCHANGED <<pureIn, pureMem, appVars, sessVars>>

\* the next call of a displacement function on the strategy object
ApplyTransform ==
    /\ pureIn.fn \in TransformFns
    /\ Len(pureOut) < Len(pureIn.args)
    /\ LET r == Transform(pureIn.fn, pureMem[1], pureIn.args[Len(pureOut) + 1])
       IN  /\ pureMem' = <<r.self>>
           /\ pureOut' = Append(pureOut, r.out)
    /\ UNCHANGED <<pureIn, appVars, sessVars>>

\* the merge detection: detectMergeTarget as exported, and the loop of the
\* dock hook's handleMouseMove over its snapshot and itemsRef.current
ApplyMergeTarget ==
    /\ pureIn.fn \in MergeFns
    /\ pureOut = <<>>
    /\ pureOut' =
          IF pureIn.fn = "detectMergeTarget"
          THEN <<detectMergeTarget(pureIn.draggedCenter, pureIn.snapshot,
                                   pureIn.activeItemId, pureIn.items,
                                   pureIn.threshold, 1)>>
          ELSE LET found == FoundMergeTarget(pureIn.snapshot, pureIn.draggedCenter,
                                             pureIn.activeItemId)
               IN  <<[id |-> found.id, type |-> found.type]>>
    /\ UNCHANGED <<pureIn, pureMem, appVars, sessVars>>

NextPure ==
    \/ ApplyMergeTarget
    \/ ApplyTransform
    \/ ApplyReorderList
    \/ ApplyDissolve
    \/ ApplyLinearIndex
    \/ ApplyGridIndex
    \/ ApplyEmptyDockMove

SpecPure == InitPure /\ [][NextPure]_vars

\* C24: dragging an item over an empty dock (item count 0, empty snapshot)
\* gives placeholderIndex = 0 on every pointer-move inside the dock's
\* buffered bounds, for every pointer position.
C24_EmptyDockPlaceholder ==
    (/\ pureIn.fn = "emptyDockMove"
     /\ pureOut # <<>>
     /\ pureIn.mouse.x >= DockRect(0).left - DOCK_DRAG_BUFFER
     /\ pureIn.mouse.x <= DockRect(0).right + DOCK_DRAG_BUFFER
     /\ pureIn.mouse.y >= DockRect(0).top - DOCK_DRAG_BUFFER
     /\ pureIn.mouse.y <= DockRect(0).bottom + DOCK_DRAG_BUFFER)
        => pureOut[1] = <<0>>

\* a move onto the corner of the buffered bounds after a move outside them
C24_Witness ==
    /\ pureIn.fn = "emptyDockMove"
    /\ pureIn.item.type = "app"
    /\ pureIn.first = Pos(DockRect(0).left - DOCK_DRAG_BUFFER - 1, DockRowY)
    /\ pureIn.mouse = Pos(DockRect(0).right + DOCK_DRAG_BUFFER,
                          DockRect(0).bottom + DOCK_DRAG_BUFFER)
    /\ pureOut = <<(<<0>>)>>

\* C25: horizontal displacement.  For an internal drag with source s and
\* target slot t an item at index i is offset by -72 iff s < i < t, by +72
\* iff t <= i < s and by 0 otherwise; with t = s or t = s + 1 every offset
\* is 0 and the source item always has offset 0; for an external drag
\* (originalIndex = -1) the offset is +72 iff i >= t; with a null target
\* slot every offset is 0.
C25_HorizontalDisplacement ==
    pureIn.fn \in {"horizontalCalculateTransform", "getItemTransform"}
        => \A k \in 1..Len(pureOut) :
              LET a == pureIn.args[k]
                  i == a.index
                  s == a.originalIndex
                  t == a.targetSlot[1]
                  x == pureOut[k].x
              IN  /\ pureOut[k].y = 0
                  /\ a.targetSlot = NoIndex => x = 0
                  /\ (a.targetSlot # NoIndex /\ s = -1)
                        => /\ (x = DOCK_CELL_SIZE) <=> (i >= t)
                           /\ x \in {0, DOCK_CELL_SIZE}
                  /\ (a.targetSlot # NoIndex /\ s # -1 /\ a.isDragging)
                        => /\ (x = -DOCK_CELL_SIZE) <=> (s < i /\ i < t)
                           /\ (x = DOCK_CELL_SIZE) <=> (t <= i /\ i < s)
                           /\ x \in {-DOCK_CELL_SIZE, 0, DOCK_CELL_SIZE}
                           /\ (t = s \/ t = s + 1) => x = 0
                           /\ i = s => x = 0

\* the item between the source 0 and the target slot 2 slides left by a cell
C25_Witness ==
    /\ pureIn.fn = "horizontalCalculateTransform"
    /\ pureIn.args[1].index = 1
    /\ pureIn.args[1].originalIndex = 0
    /\ pureIn.args[1].targetSlot = <<2>>
    /\ pureIn.args[1].isDragging
    /\ Len(pureOut) = 1
    /\ pureOut[1] = Pos(-DOCK_CELL_SIZE, 0)

\* hooks/useDragAndDrop.ts getItemTransform of the folder hook, for the
\* hook's state f and the externalDragItem prop ext
FolderGetItemTransform(f, ext, index) ==
    LET p    == f.placeholderIndex[1]
        self == [columns |-> FOLDER_COLUMNS, cellSize |-> DOCK_CELL_SIZE]
        draggingIndex == f.dragState.originalIndex
    IN  IF f.placeholderIndex = NoIndex THEN Pos(0, 0)
        ELSE IF ext.id # NULL
        THEN IF index >= p THEN calculateZShapedOffset(self, index, index + 1)
             ELSE Pos(0, 0)
        ELSE IF f.dragState.isDragging /\ draggingIndex # -1
        THEN IF index = draggingIndex THEN Pos(0, 0)
             ELSE IF draggingIndex > p /\ index >= p /\ index < draggingIndex
             THEN calculateZShapedOffset(self, index, index + 1)
             ELSE IF draggingIndex < p /\ index > draggingIndex /\ index <= p
             THEN calculateZShapedOffset(self, index, index - 1)
             ELSE Pos(0, 0)
        ELSE Pos(0, 0)

\* the visual index the grid gives the item at index i for the source s
\* (-1 for an item that comes from outside) and the target slot t
GridVisualIndex(i, s, t) ==
    IF s = -1 THEN (IF i >= t THEN i + 1 ELSE i)
    ELSE IF s > t /\ t <= i /\ i < s THEN i + 1
    ELSE IF s < t /\ s < i /\ i <= t THEN i - 1
    ELSE i

\* the pixel offset that takes the item at index i to the visual index v
GridOffset(i, v) ==
    Pos(((v % 4) - (i % 4)) * 72, ((v \div 4) - (i \div 4)) * 72)

\* C26: grid displacement with 4 columns: an item at index i moves to visual
\* index i+1 iff it lies in [target, original) on a backward drag or in
\* [target, infinity) on an external insertion, to i-1 iff it lies in
\* (original, target] on a forward drag, and stays put otherwise; its pixel
\* offset is ((v mod 4) - (i mod 4)) * 72 by (floor(v/4) - floor(i/4)) * 72 for
\* the visual index v, and (0,0) outside the affected range.  Stated for the
\* folder hook's getItemTransform in every state of a drag.
C26_GridDisplacement ==
    (FolderViewOpen /\ folderHook.placeholderIndex # NoIndex
        /\ draggingItem # NoItem)
        => \A i \in 0..(Len(FolderItems) - 1) :
              FolderGetItemTransform(folderHook, draggingItem, i)
                 = GridOffset(i, GridVisualIndex(i,
                       IF folderHook.dragState.isDragging
                       THEN folderHook.dragState.originalIndex ELSE -1,
                       folderHook.placeholderIndex[1]))

\* The grid strategy's calculateTransform, which takes the source as an
\* argument, has the displacement C26 describes.
C26_GridStrategyDisplacement ==
    pureIn.fn = "gridCalculateTransform"
        => \A k \in 1..Len(pureOut) :
              LET a == pureIn.args[k]
              IN  pureOut[k] =
                    IF a.targetSlot = NoIndex THEN Pos(0, 0)
                    ELSE IF a.originalIndex # -1 /\ ~a.isDragging THEN Pos(0, 0)
                    ELSE GridOffset(a.index,
                            GridVisualIndex(a.index, a.originalIndex,
                                            a.targetSlot[1]))

\* C27: the horizontal and grid displacement functions are deterministic and
\* free of hidden state: two calls with identical arguments return identical
\* offsets whatever calls were made in between, and no call changes what
\* the strategy object closes over.
C27_DisplacementDeterministic ==
    /\ [](pureIn.fn \in TransformFns
            => \A j, k \in 1..Len(pureOut) :
                  pureIn.args[j] = pureIn.args[k] => pureOut[j] = pureOut[k])
    /\ [][pureIn.fn \in TransformFns => pureMem' = pureMem]_vars

\* a call that displaces its item, a call with other arguments and another
\* result, and the first call again with the first result
C27_Witness ==
    /\ pureIn.fn = "gridCalculateTransform"
    /\ Len(pureOut) = 3
    /\ pureIn.args[1] = pureIn.args[3]
    /\ pureIn.args[1] # pureIn.args[2]
    /\ pureOut[1] = pureOut[3]
    /\ pureOut[1] # pureOut[2]
    /\ pureOut[1].y # 0

--------------------------------------------------------------------------
(* A release after layout data was lost.  While a drag is running the      *)
(* coordinator can still change what the hooks read: a close of the folder *)
(* view (its fade-out ends in onClose) and a change of the items prop (the *)
(* deferred commit of an earlier gesture, the load from storage).  The     *)
(* window listeners are native, so the release can run right after.        *)

\* the item at position k is gone from the list
RemoveAt(s, k) == SubSeq(s, 1, k - 1) \o SubSeq(s, k + 1, Len(s))

\* setOpenFolderId(null) under a dock drag the open folder shows its
\* placeholder for: the view's element leaves the DOM at commit, so
\* getFolderViewRect() is null, while the flag is reset by the cleanup of a
\* passive effect (useDragAndDrop.ts:1366-1368) that has not run yet
FolderViewUnmounted ==
    /\ lastOp = "none"
    /\ mouse.down
    /\ dockHook.dragRef.isDragging
    /\ dockHook.dragRef.item.type # "folder"
    /\ FolderViewOpen
    /\ folderHasActivePlaceholder
    /\ openFolderId' = NULL
    /\ lastOp' = "viewUnmounted"
    /\ UNCHANGED <<pureVars, dockItems, sessVars>>

\* setDockItems under a dock drag in pre-merge: an entry other than the
\* dragged one is gone from the items prop.  itemsRef follows the prop
\* (useDragAndDrop.ts:771) and, an external drag item being set, the effect
\* on items (343-352) empties the snapshot and clears the placeholder; the
\* hovered ids stay as the last pointer-move left them
DockItemRemoved ==
    /\ lastOp = "none"
    /\ mouse.down
    /\ dockHook.dragRef.isDragging
    /\ dockHook.isPreMergeRef
    /\ \E k \in 1..Len(dockItems) :
          /\ dockItems[k].id # dockHook.dragRef.item.id
          /\ dockItems' = RemoveAt(dockItems, k)
    /\ dockHook' = IF draggingItem.id # NULL
                   THEN [dockHook EXCEPT !.layoutSnapshotRef = <<>>,
                                         !.placeholderIndex = NoIndex,
                                         !.placeholderRef = NoIndex]
                   ELSE dockHook
    /\ lastOp' = "itemsChanged"
    /\ UNCHANGED <<pureVars, openFolderId, isEditMode, draggingItem, folderHook,
                   folderHasActivePlaceholder, anims, calls, now, mouse>>

NextRelease ==
    \/ lastOp = "none" /\ Next
    \/ FolderViewUnmounted
    \/ DockItemRemoved
    \/ lastOp # "none" /\ MouseUp

SpecRelease == InitSession /\ [][NextRelease]_vars

\* what handleMouseUp of the dock hook would need is not there: the flag
\* sends the item to the open folder and the view has no rect, or the
\* release goes by the pre-merge and its candidate is not in the snapshot
\* or not in the item list
MissingLayoutData ==
    LET state    == dockHook.dragRef
        toFolder == state.item.type # "folder" /\ folderHasActivePlaceholder
        cand     == IF dockHook.hoveredFolderRef # NULL THEN dockHook.hoveredFolderRef
                    ELSE dockHook.hoveredAppRef
    IN  \/ toFolder /\ ~FolderViewOpen
        \/ /\ ~toFolder
           /\ dockHook.isPreMergeRef
           /\ cand # NULL
           /\ \/ FindIndexById(dockHook.layoutSnapshotRef, cand) = -1
              \/ ~HasId(dockItems, cand)

FolderChangingOps ==
    {"folderItemDelete", "dragFromFolder", "dragFromFolderNoDock", "dropOnFolder",
     "itemDelete"}

\* the open-folder id is null or names an entry of type folder in the dock
OpenFolderIdValid == openFolderId = NULL \/ FolderViewOpen

\* C29: after every coordinator operation that changes folder contents or
\* removes a folder (delete from folder, drag-out, drop of an item or a
\* folder onto a folder, delete of a dock item) the open-folder id is null
\* or the id of an entry of type folder present in the dock list.
C29_OpenFolderIdValid ==
    lastOp \in FolderChangingOps => OpenFolderIdValid

\* the operations other than the drop of the open folder onto another
\* folder keep the open-folder id valid
C29_ValidUnlessOpenFolderMerged ==
    [][(/\ lastOp' \in FolderChangingOps
        /\ OpenFolderIdValid
        /\ ~(lastOp' = "dropOnFolder" /\ FolderViewOpen
                /\ ~HasId(dockItems', openFolderId)))
          => OpenFolderIdValid']_vars

\* C30: when the last pointer-move the dock hook handled during a drag was
\* over the open folder view (the dragged item not a folder) or outside the
\* dock's buffered bounds, the dock's placeholderIndex, hoveredFolderId,
\* hoveredAppId, mergeTargetId and pre-merge flag are cleared and the dwell
\* candidate is reset, and a release at that point resolves neither to a
\* reorder nor to a merge in the dock.
C30_AwayMoveClearsDock ==
    /\ [](mouse.away
            => /\ dockHook.placeholderIndex = NoIndex
               /\ dockHook.placeholderRef = NoIndex
               /\ dockHook.hoveredFolderId = NULL
               /\ dockHook.hoveredAppId = NULL
               /\ dockHook.mergeTargetId = NULL
               /\ ~dockHook.isPreMerge
               /\ ~dockHook.isPreMergeRef
               /\ dockHook.potentialMergeTarget = NULL)
    /\ [][(mouse.away /\ DockRelease)
            => /\ dockHook'.dragState.targetAction
                    \notin {"reorder", "dropToFolder", "mergeFolder"}
               /\ \A k \in NewCalls :
                     calls'[k].cb \notin {"onReorder", "onDropToFolder",
                                          "onMergeFolder"}]_vars

\* a dock drag whose last move left the dock's buffered bounds, the open
\* folder showing no placeholder for it
C30_Witness ==
    /\ mouse.away
    /\ mouse.down
    /\ Phase(dockHook.dragRef) = "dragging"
    /\ dockHook.press.dragDataSet
    /\ ~folderHasActivePlaceholder

\* the step is one of a gesture: the button is held before and after it
InGesture == mouse.down /\ mouse'.down

\* the dock's session is dragging before and after the step
DockDragContinues ==
    /\ Phase(dockHook.dragRef) = "dragging"
    /\ Phase(dockHook'.dragRef) = "dragging"

\* the folder's session is dragging before and after the step
FolderDragContinues ==
    /\ Phase(folderHook.dragRef) = "dragging"
    /\ Phase(folderHook'.dragRef) = "dragging"

\* the snapshot a hook holds, once captured, is the same after the step
DockSnapshotKept ==
    Len(dockHook.layoutSnapshotRef) > 0
      => dockHook'.layoutSnapshotRef = dockHook.layoutSnapshotRef

FolderSnapshotKept ==
    Len(folderHook.layoutSnapshotRef) > 0
      => folderHook'.layoutSnapshotRef = folderHook.layoutSnapshotRef

\* C31: the layout snapshot is captured when the drag starts and no step of
\* the gesture replaces or modifies it, in the dock and in the folder; the
\* insertion index a pointer-move computes is that of the pointer against
\* the layout captured at the start, whatever placeholder is shown, so two
\* moves to the same position compute the same index.
C31_SnapshotFixedForGesture ==
    /\ [](\A e \in Pointers :
            (/\ Phase(dockHook.dragRef) = "dragging"
             /\ dockHook.moveListening
             /\ Len(dockItems) > 0
             /\ ~DockMoveAway(World, e)
             /\ DockCandidate(World, e) = NoItem)
               => DockHandleMouseMove(World, e).dock.placeholderIndex
                     = <<calculatePlaceholder(e.x, DockSnapshot(dockItems),
                                              Len(dockItems))>>)
    /\ [](Phase(dockHook.dragRef) = "dragging" /\ Len(dockItems) > 0
            => dockHook.layoutSnapshotRef = DockSnapshot(dockItems))
    /\ [][InGesture
            => /\ DockDragContinues => DockSnapshotKept
               /\ FolderDragContinues => FolderSnapshotKept
               /\ (anims = <<>> /\ (DockDragContinues \/ FolderDragContinues))
                     => DockSnapshotKept /\ FolderSnapshotKept]_vars

\* a dock drag that shows a placeholder right of its source, so that the
\* items between are displaced, with its snapshot as captured at the start
C31_Witness ==
    /\ Phase(dockHook.dragRef) = "dragging"
    /\ mouse.down
    /\ dockHook.placeholderIndex # NoIndex
    /\ dockHook.placeholderIndex[1] > dockHook.dragRef.originalIndex + 1
    /\ dockHook.layoutSnapshotRef = DockSnapshot(dockItems)

\* the snapshot entries of the call that qualify as merge target
MergeEligible ==
    {k \in 1..Len(pureIn.snapshot) :
        /\ DistSq(pureIn.draggedCenter,
                  Pos(pureIn.snapshot[k].centerX, pureIn.snapshot[k].centerY))
              < pureIn.threshold * pureIn.threshold
        /\ \E j \in 1..Len(pureIn.items) : pureIn.items[j].id = pureIn.snapshot[k].id
        /\ pureIn.snapshot[k].id # pureIn.activeItemId}

FolderReorderRelease ==
    /\ FolderRelease
    /\ folderHook.dragRef.targetAction # "dragOut"
    /\ folderHook.placeholderRef # NoIndex

\* C33: a folder release with placeholderIndex p set computes the reordered
\* list by the rule of the dock: the item leaves originalIndex s and is
\* inserted at p - 1 when p > s, at p otherwise; a release at p = s + 1
\* leaves the order of the folder's items unchanged.
C33_FolderReorderRule ==
    [][FolderReorderRelease
          => LET rule == Ids(DockReorderItems(FolderItems,
                                 folderHook.dragRef.originalIndex,
                                 folderHook.placeholderRef[1]))
             IN  /\ \A k \in NewCalls :
                       calls'[k].cb = "onReorder" => calls'[k].list = rule
                 /\ rule # Ids(FolderItems)
                       => \E k \in NewCalls : calls'[k].cb = "onReorder"]_vars

\* What the code has in place of C33: the list handed to onReorder is
\* reorderList(items, s, p), the item taken from s and inserted at p with no
\* adjustment, and there is a call whenever p differs from s.
C33_FolderReorderUnadjusted ==
    [][FolderReorderRelease
          => LET s0 == folderHook.dragRef.originalIndex
                 p0 == folderHook.placeholderRef[1]
             IN  /\ \A k \in NewCalls :
                       calls'[k].cb = "onReorder"
                          => calls'[k].list
                                = Ids(reorderList(FolderItems, s0, p0).result)
                 /\ p0 # s0 <=> \E k \in NewCalls : calls'[k].cb = "onReorder"]_vars

--------------------------------------------------------------------------
(* A press while the dock animates a return.  The items stay on screen and *)
(* handleMouseDown has no guard on the session's phase, so the next press  *)
(* can arrive before the transition of the previous release has ended.     *)

\* handleMouseDown of the dock hook on item i while the session of the
\* previous release is animating its return
DockMouseDownOnReturn ==
    /\ ~mouse.down
    /\ Phase(dockHook.dragRef) = "animatingReturn"
    /\ Len(anims) = 1
    /\ \E i \in 0..(Len(dockItems) - 1) :
          /\ mouse' = [MouseAtRest EXCEPT
                          !.down = TRUE,
                          !.start = Pos(DockItemCenterX(i), DockRowY),
                          !.editAtDown = isEditMode]
          /\ Commit(createMouseDownHandler(
                       [World EXCEPT !.calls = IF isEditMode THEN <<>> ELSE @],
                       "dock", dockItems[i + 1], i,
                       Pos(DockItemCenterX(i), DockRowY)))
    /\ UNCHANGED isEditMode

\* edit mode on, no folder view open and a dock of two entries: the
\* gestures are those of the dock, on one item and on the other
InitOverlap ==
    /\ InitSession
    /\ isEditMode
    /\ openFolderId = NULL
    /\ Len(dockItems) = 2

NextOverlap ==
    \/ DockMouseDown
    \/ DockMouseDownOnReturn
    \/ MouseMove
    \/ MouseUp
    \/ TransitionEnd
    \/ FallbackTimeout
    \/ Tick

SpecOverlap == InitOverlap /\ [][NextOverlap]_vars

\* C34: a session of the dock that is animating its return is not replaced
\* or discarded by a press and drag that arrive meanwhile: every step either
\* leaves it pending as it is, or ends it with the callback of the action
\* resolved at its release and with onDragEnd.
C34_PendingSessionNotDiscarded ==
    [][Phase(dockHook.dragRef) = "animatingReturn"
          => \/ /\ Phase(dockHook'.dragRef) = "animatingReturn"
                /\ dockHook'.dragRef.item = dockHook.dragRef.item
                /\ dockHook'.dragRef.targetActionData
                      = dockHook.dragRef.targetActionData
             \/ /\ Phase(dockHook'.dragRef) = "idle"
                /\ \E k \in NewCalls : calls'[k].cb \in CommitCallbacks
                /\ \E k \in NewCalls : calls'[k].cb = "onDragEnd"]_vars


\* the dock hook handles a move to e, takes neither early return and its
\* merge detection finds no candidate
DockMoveNoCandidate(w, e) ==
    LET state      == w.dock.dragRef
        ext        == w.externalDragItem
        activeItem == IF state.isDragging THEN state.item ELSE ext
        starting   == ~state.isDragging /\ ext.id = NULL /\ state.item.id # NULL
    IN  /\ dockHook.moveListening \/ dockHook.externalListening
        /\ ~starting
        /\ activeItem.id # NULL
        /\ ~DockMoveAway(w, e)
        /\ DockCandidate(w, e) = NoItem

\* the slot the no-candidate branch shows: the insertion index of the
\* pointer against the snapshot, 0 when the snapshot is empty
NoCandidateSlot(d, e) ==
    IF Len(d.layoutSnapshotRef) > 0
    THEN <<calculatePlaceholder(e.x, d.layoutSnapshotRef, Len(dockItems))>>
    ELSE <<0>>

\* C35: a pointer-move that finds no merge candidate clears the dwell state
\* in that step: the dwell candidate is reset, the pre-merge flag is false,
\* mergeTargetId, hoveredFolderId and hoveredAppId are null, and the
\* placeholder index is the insertion index of the pointer against the
\* snapshot.
C35_NoCandidateClearsDwell ==
    \A e \in Pointers :
        DockMoveNoCandidate(World, e)
          => \E d \in {DockHandleMouseMove(World, e).dock} :
                /\ d.potentialMergeTarget = NULL
                /\ ~d.isPreMerge
                /\ d.mergeTargetId = NULL
                /\ d.hoveredFolderId = NULL
                /\ d.hoveredAppId = NULL
                /\ d.placeholderIndex = NoCandidateSlot(d, e)

\* what the no-candidate branch does write: the dwell candidate, the
\* pre-merge flag and the placeholder index
C35_NoCandidateResetsDwellOnly ==
    \A e \in Pointers :
        DockMoveNoCandidate(World, e)
          => \E d \in {DockHandleMouseMove(World, e).dock} :
                /\ d.potentialMergeTarget = NULL
                /\ ~d.isPreMerge
                /\ d.placeholderIndex = NoCandidateSlot(d, e)
                /\ d.mergeTargetId = dockHook.mergeTargetId
                /\ d.hoveredFolderId = dockHook.hoveredFolderId
                /\ d.hoveredAppId = dockHook.hoveredAppId

\* the pre-merge flag is down while the ids it raised are still set
StaleMergeIds ==
    /\ ~dockHook.isPreMerge
    /\ Phase(dockHook.dragRef) = "dragging"
    /\ dockHook.mergeTargetId # NULL

\* the item the dock's handleMouseMove treats as dragged: the hook's own
\* session item while it drags, the externalDragItem prop otherwise
DockActiveItem ==
    IF dockHook.dragRef.isDragging THEN dockHook.dragRef.item
    ELSE draggingItem

\* C36: in every reachable dock state, the pre-merge flag being true implies
\* that mergeTargetId is non-null, that exactly one of hoveredFolderId and
\* hoveredAppId is non-null and equals mergeTargetId (hoveredFolderId iff
\* the target is a folder), and that the target is not the dragged item.
C36_PreMergeConsistent ==
    dockHook.isPreMerge
      => /\ dockHook.mergeTargetId # NULL
         /\ \/ /\ dockHook.hoveredFolderId = dockHook.mergeTargetId
               /\ dockHook.hoveredAppId = NULL
            \/ /\ dockHook.hoveredAppId = dockHook.mergeTargetId
               /\ dockHook.hoveredFolderId = NULL
         /\ HasId(dockItems, dockHook.mergeTargetId)
              => (dockHook.hoveredFolderId # NULL
                    <=> FindById(dockItems, dockHook.mergeTargetId).type = "folder")
         /\ dockHook.mergeTargetId # DockActiveItem.id

\* a dock drag in pre-merge on a folder
C36_Witness ==
    /\ dockHook.isPreMerge
    /\ Phase(dockHook.dragRef) = "dragging"
    /\ dockHook.hoveredFolderId # NULL

\* an item dragged in from the folder in pre-merge on a dock app
C36_WitnessApp ==
    /\ dockHook.isPreMerge
    /\ dockHook.dragRef.item.id = NULL
    /\ draggingItem.id # NULL
    /\ dockHook.hoveredAppId # NULL

\* the step in which a dock drag starts and the coordinator's dragging item
\* is set: no pointer-move of the gesture has reached the folder hook yet
DockDragStarts ==
    /\ draggingItem.id = NULL
    /\ draggingItem'.id # NULL
    /\ dockHook'.dragRef.isDragging

\* C37: the shared folder-placeholder flag is true only while an external
\* drag item exists and the folder's placeholderIndex is non-null; when the
\* external drag item is cleared or the folder view is not mounted the flag
\* is false; and a gesture does not observe a true value an earlier one
\* left: the flag is false when a dock drag starts.
C37_FlagNeverStale ==
    /\ [](folderHasActivePlaceholder
            => /\ draggingItem.id # NULL
               /\ FolderViewOpen
               /\ folderHook.placeholderIndex # NoIndex)
    /\ [](draggingItem.id = NULL \/ ~FolderViewOpen
            => ~folderHasActivePlaceholder)
    /\ [][DockDragStarts => ~folderHasActivePlaceholder']_vars

\* the flag is the conjunction the effect publishes, in every state
C37_FlagFollowsExternalDrag ==
    folderHasActivePlaceholder
      <=> /\ draggingItem.id # NULL
          /\ FolderViewOpen
          /\ folderHook.placeholderIndex # NoIndex

\* the places an app id occupies: <<k, 0>> for the dock entry k, <<k, j>>
\* for the item j of the folder at entry k
AppPlaces(items, id) ==
    {<<k, 0>> : k \in {n \in 1..Len(items) :
                          items[n].type = "app" /\ items[n].id = id}}
        \cup {p \in (1..Len(items)) \X (1..MaxApps) :
                 /\ items[p[1]].type = "folder"
                 /\ p[2] <= Len(items[p[1]].items)
                 /\ items[p[1]].items[p[2]].id = id}

\* the operations that move items between the dock and a folder
TransferOps ==
    {"dragFromFolder", "dragFromFolderNoDock", "dragToFolder", "dropOnFolder"}

\* C38: a drag out of the folder, a drag into the open folder and a drop
\* onto a folder conserve the items: every app id is found in the dock list
\* and the folders' items as often after the operation as before it, and
\* never twice; this holds also when the dock element is missing and the
\* dragged-out item is appended at the end.
C38_TransfersConserveItems ==
    /\ [][lastOp' \in TransferOps
            => \A id \in AppIds :
                  Cardinality(AppPlaces(dockItems', id))
                     = Cardinality(AppPlaces(dockItems, id))]_vars
    /\ [](\A id \in AppIds : Cardinality(AppPlaces(dockItems, id)) <= 1)
    /\ [][lastOp' = "dragFromFolderNoDock" /\ dockItems' # dockItems
            => /\ dockItems'[Len(dockItems')].type = "app"
               /\ AppPlaces(dockItems, dockItems'[Len(dockItems')].id)
                     \cap {<<k, 0>> : k \in 1..Len(dockItems)} = {}]_vars

\* an item was dragged out of a folder that keeps two others, the dock
\* element missing: it is the last dock entry
C38_Witness ==
    /\ lastOp = "dragFromFolderNoDock"
    /\ dockItems[Len(dockItems)].type = "app"
    /\ \E k \in 1..Len(dockItems) :
          dockItems[k].type = "folder" /\ Len(dockItems[k].items) >= 2
    /\ \A id \in AppIds : Cardinality(AppPlaces(dockItems, id)) = 1

\* the notifications of a container among the calls of the gesture
Notified(hook, cb) ==
    {k \in 1..Len(calls) : calls[k].hook = hook /\ calls[k].cb = cb}

\* C39: every onDragStart of a container is followed by exactly one
\* onDragEnd of that container before its next onDragStart: no onDragEnd
\* comes without an onDragStart before it, no two come without an
\* onDragStart between them, and once the button is up and no return
\* animation is pending the last onDragStart has its onDragEnd and the
\* coordinator's dragging item is null.
C39_OneDragEndPerDragStart ==
    \A hook \in {"dock", "folder"} :
        /\ \A k \in Notified(hook, "onDragEnd") :
              \E j \in Notified(hook, "onDragStart") : j < k
        /\ \A j, k \in Notified(hook, "onDragEnd") :
              j < k => \E m \in Notified(hook, "onDragStart") : j < m /\ m < k
        /\ (~mouse.down /\ anims = <<>>)
              => /\ draggingItem.id = NULL
                 /\ \A j \in Notified(hook, "onDragStart") :
                       \E k \in Notified(hook, "onDragEnd") : j < k

\* every onDragStart is followed by an onDragEnd, and the dragging item is
\* null once the gesture and its animation are over
C39_DragEndFollows ==
    \A hook \in {"dock", "folder"} :
        /\ \A k \in Notified(hook, "onDragEnd") :
              \E j \in Notified(hook, "onDragStart") : j < k
        /\ (~mouse.down /\ anims = <<>>)
              => /\ draggingItem.id = NULL
                 /\ \A j \in Notified(hook, "onDragStart") :
                       \E k \in Notified(hook, "onDragEnd") : j < k

\* with the button up, no return animation pending and the dock session
\* idle, the coordinator's dragging item is null
DraggingItemCleared ==
    (~mouse.down /\ anims = <<>> /\ Phase(dockHook.dragRef) = "idle"
        /\ ~dockHook.thresholdListenerRef)
      => draggingItem.id = NULL

\* a placeholder index that is set lies within the n + 1 slots of a list of
\* n items
PlaceholderInRange(placeholderIndex, n) ==
    placeholderIndex # NoIndex
      => placeholderIndex[1] >= 0 /\ placeholderIndex[1] <= n

\* every reorder a step commits passes a list as long as the container's
CommitsKeepLength ==
    \A k \in NewCalls :
        calls'[k].cb = "onReorder"
          => Len(calls'[k].list)
                = (IF calls'[k].hook = "dock" THEN Len(dockItems)
                   ELSE Len(FolderItems))

\* the placeholder indices that are set, in the dock and in the open
\* folder, are slots of their lists
PlaceholdersInRange ==
    /\ PlaceholderInRange(dockHook.placeholderIndex, Len(dockItems))
    /\ PlaceholderInRange(dockHook.placeholderRef, Len(dockItems))
    /\ FolderViewOpen
         => /\ PlaceholderInRange(folderHook.placeholderIndex, Len(FolderItems))
            /\ PlaceholderInRange(folderHook.placeholderRef, Len(FolderItems))

\* C40: a placeholder index that is set in the dock or in the folder lies in
\* 0..n, n the container's item count, every reorder commit passes a list
\* of n items, and in the folder a pending action of dragOut implies that
\* the placeholder index is null.
C40_PlaceholderInRange ==
    /\ []PlaceholdersInRange
    /\ [][CommitsKeepLength]_vars
    /\ [](folderHook.dragState.targetAction = "dragOut"
            => folderHook.placeholderIndex = NoIndex)

\* the range and the length of the committed lists alone
C40_IndexAndLength ==
    /\ []PlaceholdersInRange
    /\ [][CommitsKeepLength]_vars

\* the folder session has dragOut pending while a placeholder is shown
DragOutWithPlaceholder ==
    /\ folderHook.dragState.targetAction = "dragOut"
    /\ folderHook.placeholderIndex # NoIndex

==========================================================================
